---- MODULE Spec2Model ----
(***************************************************************************)
(* Model of the logo finder of lead_qualifier.py (section "5. lead_logo"): *)
(* LogoFinder._score_logo_candidate, LogoFinder.find_logo_candidates and   *)
(* LogoFinder.process_website.                                             *)
(*                                                                         *)
(* Text is modelled by TLA+ strings, with Python's str.lower, the `in`     *)
(* substring test and startswith computed character by character.          *)
(* Scores are Python floats that are all multiples of 0.5; the model keeps *)
(* them exactly as integers in tenths (3.0 is 30, 1.5 is 15).              *)
(* Pixel coordinates and sizes are modelled as integers.                   *)
(***************************************************************************)
EXTENDS Integers, Sequences, FiniteSets, TLC

VARIABLES
    pc,           \* position of the modelled call
    open_pages,   \* browser pages opened with new_page() and not closed
    url,          \* the website: url argument of find_logo_candidates / process_website
    page,         \* what it serves: the raw <img> records in discovery order
    logo_candidates, \* find_logo_candidates' list of discovered candidates
    candidates,   \* list returned by find_logo_candidates
    cand,         \* argument of a direct _score_logo_candidate call
    score,        \* value returned by that call (tenths)
    result,       \* result dict of process_website
    idx,          \* number of candidates the process_website loop has finished
    downloads,    \* src of every download_image call, in call order
    validations,  \* src of every validate_logo_with_ai call, in call order
    last_response,    \* the server's response to the latest download_image call
    last_image_bytes, \* what that download_image call returned
    last_validation,  \* what the latest validate_logo_with_ai call returned
    log,          \* the external calls and the delays of the script, in order
    rows,         \* the input rows of a batch
    results,      \* the results a batch has collected
    row_idx,      \* number of rows a batch has finished
    saved,        \* the results in the output file of a batch
    self,         \* the fields of the LogoFinder
    calls,        \* the locals of concurrent find_logo_candidates calls
    restaurants_data,     \* argument of filter_restaurants_batch
    filtered_restaurants, \* its list of kept restaurants
    ai_responses,         \* the answer the AI gave for each batch so far
    result_text,          \* argument of extract_contact_from_text, word by word
    contact_info,         \* the dict it returns
    place_type,           \* argument of search_places
    requests,             \* the requests search_places has sent, with their answers
    food_type,            \* index of the food type being searched
    places,               \* the places of the search at hand
    all_places,           \* the places of the finished searches
    found_places,         \* the list search_places returns
    output_file,          \* argument of process_restaurants / process_urls
    img_idx               \* number of images find_logo_candidates has been through

website_vars == <<last_response, last_image_bytes, last_validation, log>>

batch_vars == <<rows, results, row_idx, saved>>

filter_vars == <<restaurants_data, filtered_restaurants, ai_responses>>

\* the variables of the other classes
contact_vars == <<result_text, contact_info>>

places_vars == <<place_type, requests, food_type, places, all_places, found_places>>

qualify_vars == <<output_file>>

other_vars == <<filter_vars, contact_vars, places_vars, qualify_vars>>

vars == <<pc, open_pages, url, page, logo_candidates, candidates, cand, score, result, idx,
          downloads, validations, website_vars, batch_vars, self, calls, other_vars, img_idx>>

----------------------------------------------------------------------------
(* Strings *)

\* str.lower() on the ASCII letters
LowerMap ==
    [A |-> "a", B |-> "b", C |-> "c", D |-> "d", E |-> "e", F |-> "f", G |-> "g",
     H |-> "h", I |-> "i", J |-> "j", K |-> "k", L |-> "l", M |-> "m", N |-> "n",
     O |-> "o", P |-> "p", Q |-> "q", R |-> "r", S |-> "s", T |-> "t", U |-> "u",
     V |-> "v", W |-> "w", X |-> "x", Y |-> "y", Z |-> "z"]

\* str.lower() on one character
LowerChar(c) == IF c \in DOMAIN LowerMap THEN LowerMap[c] ELSE c

RECURSIVE Lower(_)
\* str.lower(): every character lowered, the two halves one after the other
Lower(s) ==
    IF s = "" THEN ""
    ELSE IF Len(s) = 1 THEN LowerChar(s)
    ELSE Lower(SubSeq(s, 1, Len(s) \div 2))
         \o Lower(SubSeq(s, (Len(s) \div 2) + 1, Len(s)))

\* Python's `pattern in text`
Contains(pattern, text) ==
    \E i \in 1..(Len(text) - Len(pattern) + 1) :
        SubSeq(text, i, i + Len(pattern) - 1) = pattern

\* str.startswith(prefix)
StartsWith(s, prefix) ==
    /\ Len(s) >= Len(prefix)
    /\ SubSeq(s, 1, Len(prefix)) = prefix

\* str.find(ch, start) for a one-character ch, 1-based: the first position
\* from start on that holds ch; 0 when there is none
Find(s, ch, start) ==
    LET hits == {i \in start..Len(s) : SubSeq(s, i, i) = ch}
    IN  IF hits = {} THEN 0
        ELSE CHOOSE i \in hits : \A j \in hits : i <= j

\* str.rfind(ch) for a one-character ch: the last position up to `from` that
\* holds ch; 0 when none
RFind(s, ch, from) ==
    LET hits == {i \in 1..from : SubSeq(s, i, i) = ch}
    IN  IF hits = {} THEN 0
        ELSE CHOOSE i \in hits : \A j \in hits : i >= j

\* the decimal digits in order
Digits == <<"0", "1", "2", "3", "4", "5", "6", "7", "8", "9">>

\* [0-9]
DigitChars == {Digits[k] : k \in DOMAIN Digits}

RECURSIVE SplitBy(_, _)
\* str.split(sep) for a one-character sep
SplitBy(s, sep) ==
    IF Find(s, sep, 1) = 0 THEN <<s>>
    ELSE <<SubSeq(s, 1, Find(s, sep, 1) - 1)>>
         \o SplitBy(SubSeq(s, Find(s, sep, 1) + 1, Len(s)), sep)

----------------------------------------------------------------------------
(* ipaddress: is the text an address *)

\* string.hexdigits
HexDigits ==
    DigitChars \cup {"a", "b", "c", "d", "e", "f", "A", "B", "C", "D", "E", "F"}

\* int(octet_str, 10) for one to three decimal digits
OctetValue(octet_str) ==
    LET d(i) == (CHOOSE k \in DOMAIN Digits : Digits[k] = SubSeq(octet_str, i, i)) - 1
    IN  IF Len(octet_str) = 1 THEN d(1)
        ELSE IF Len(octet_str) = 2 THEN 10 * d(1) + d(2)
        ELSE 100 * d(1) + 10 * d(2) + d(3)

\* _parse_octet does not raise: one to three decimal digits without a
\* leading zero, at most 255
IsOctet(octet_str) ==
    /\ octet_str # ""
    /\ \A i \in 1..Len(octet_str) : SubSeq(octet_str, i, i) \in DigitChars
    /\ Len(octet_str) <= 3
    /\ octet_str = "0" \/ SubSeq(octet_str, 1, 1) # "0"
    /\ OctetValue(octet_str) <= 255

\* IPv4Address(ip_str) does not raise: four octets
IsIPv4Address(ip_str) ==
    /\ Len(SplitBy(ip_str, ".")) = 4
    /\ \A k \in 1..4 : IsOctet(SplitBy(ip_str, ".")[k])

\* _parse_hextet does not raise: one to four hex digits
IsHextet(hextet_str) ==
    /\ hextet_str # ""
    /\ \A i \in 1..Len(hextet_str) : SubSeq(hextet_str, i, i) \in HexDigits
    /\ Len(hextet_str) <= 4

\* _ip_int_from_string does not raise for these parts, the IPv4-style suffix
\* already replaced by its two hextets: at most 9 parts, at most one '::',
\* which may cover an end and stands for one part at least, otherwise 8 parts
IsHextetList(parts) ==
    LET n == Len(parts)
        skips == {i \in 2..(n - 1) : parts[i] = ""}
    IN  /\ n <= 9
        /\ Cardinality(skips) <= 1
        /\ IF skips # {}
           THEN LET skip_index == CHOOSE i \in skips : TRUE
                    parts_hi == IF parts[1] = "" THEN skip_index - 2 ELSE skip_index - 1
                    parts_lo == IF parts[n] = "" THEN n - skip_index - 1 ELSE n - skip_index
                IN  /\ parts[1] = "" => parts_hi = 0
                    /\ parts[n] = "" => parts_lo = 0
                    /\ 8 - (parts_hi + parts_lo) >= 1
                    /\ \A i \in 1..parts_hi : IsHextet(parts[i])
                    /\ \A i \in (n - parts_lo + 1)..n : IsHextet(parts[i])
           ELSE /\ n = 8
                /\ \A i \in 1..n : IsHextet(parts[i])

\* IPv6Address(ip_str) does not raise for a text without scope id: three
\* parts at least; a last part with a "." is an IPv4 address, whose two
\* hextets ('%x' of its halves, written "0" here) take its place
IsIPv6String(ip_str) ==
    LET parts == SplitBy(ip_str, ":")
    IN  /\ Len(parts) >= 3
        /\ IF Find(parts[Len(parts)], ".", 1) > 0
           THEN /\ IsIPv4Address(parts[Len(parts)])
                /\ IsHextetList(SubSeq(parts, 1, Len(parts) - 1) \o <<"0", "0">>)
           ELSE IsHextetList(parts)

\* IPv6Address(address) does not raise: no "/", and a scope id behind "%"
\* that is not empty and holds no "%"
IsIPv6Address(address) ==
    /\ Find(address, "/", 1) = 0
    /\ IF Find(address, "%", 1) = 0 THEN IsIPv6String(address)
       ELSE /\ Find(address, "%", 1) < Len(address)
            /\ Find(address, "%", Find(address, "%", 1) + 1) = 0
            /\ IsIPv6String(SubSeq(address, 1, Find(address, "%", 1) - 1))

----------------------------------------------------------------------------
(* urllib.parse.urljoin, for a base that is a lower-case http(s) URL with a
   host of letters, digits, "." and "-" and without params, query or
   fragment, and a reference of ASCII characters without params, whitespace
   or control characters *)

HasScheme(u) == StartsWith(u, "http://") \/ StartsWith(u, "https://")

\* index of the first "/" of the path of u, 0 when the path is empty
PathStart(u) == Find(u, "/", IF StartsWith(u, "https://") THEN 9 ELSE 8)

\* scheme and authority
Origin(u) == IF PathStart(u) = 0 THEN u ELSE SubSeq(u, 1, PathStart(u) - 1)

\* the path of the base, bpath
BasePath(u) == IF PathStart(u) = 0 THEN "" ELSE SubSeq(u, PathStart(u), Len(u))

\* the scheme of the base, bscheme
BaseScheme(u) == IF StartsWith(u, "https://") THEN "https" ELSE "http"

\* urlsplit: the characters a scheme is made of
scheme_chars ==
    {"a", "b", "c", "d", "e", "f", "g", "h", "i", "j", "k", "l", "m", "n", "o", "p",
     "q", "r", "s", "t", "u", "v", "w", "x", "y", "z", "0", "1", "2", "3", "4", "5",
     "6", "7", "8", "9", "+", "-", "."}

\* urlsplit: the length of the scheme of a reference, 0 when it has none: the
\* text in front of the first ":", when it starts with a letter and holds
\* scheme characters only
SchemeLen(ref) ==
    LET colon == Find(ref, ":", 1)
    IN  IF /\ colon > 1
           /\ Lower(SubSeq(ref, 1, 1)) \in scheme_chars \ {"0", "1", "2", "3", "4", "5",
                                                            "6", "7", "8", "9", "+", "-", "."}
           /\ \A i \in 1..(colon - 1) : Lower(SubSeq(ref, i, i)) \in scheme_chars
        THEN colon - 1
        ELSE 0

\* urlsplit: the reference in front of its fragment
BeforeFragment(ref) ==
    IF Find(ref, "#", 1) = 0 THEN ref ELSE SubSeq(ref, 1, Find(ref, "#", 1) - 1)

\* urlunsplit: "#" and the fragment, nothing when the fragment is empty
FragmentPart(ref) ==
    IF Find(ref, "#", 1) \in {0, Len(ref)} THEN ""
    ELSE SubSeq(ref, Find(ref, "#", 1), Len(ref))

\* urlsplit: what is in front of the query
BeforeQuery(ref) ==
    LET r == BeforeFragment(ref)
    IN  IF Find(r, "?", 1) = 0 THEN r ELSE SubSeq(r, 1, Find(r, "?", 1) - 1)

\* urlunsplit: "?" and the query, nothing when the query is empty
QueryPart(ref) ==
    LET r == BeforeFragment(ref)
    IN  IF Find(r, "?", 1) \in {0, Len(r)} THEN ""
        ELSE SubSeq(r, Find(r, "?", 1), Len(r))

RECURSIVE Split(_)
\* str.split('/')
Split(s) ==
    IF Find(s, "/", 1) = 0 THEN <<s>>
    ELSE <<SubSeq(s, 1, Find(s, "/", 1) - 1)>>
         \o Split(SubSeq(s, Find(s, "/", 1) + 1, Len(s)))

RECURSIVE Join(_)
\* '/'.join(segments)
Join(segments) ==
    IF segments = <<>> THEN ""
    ELSE IF Len(segments) = 1 THEN segments[1]
    ELSE segments[1] \o "/" \o Join(Tail(segments))

\* base_parts = bpath.split('/'), without its last part when that is a file
BaseParts(bpath) ==
    LET parts == Split(bpath)
    IN  IF parts[Len(parts)] # "" THEN SubSeq(parts, 1, Len(parts) - 1) ELSE parts

\* segments[1:-1] = filter(None, segments[1:-1])
FilterInner(segments) ==
    IF Len(segments) < 3 THEN segments
    ELSE <<segments[1]>>
         \o SelectSeq(SubSeq(segments, 2, Len(segments) - 1), LAMBDA seg : seg # "")
         \o <<segments[Len(segments)]>>

RECURSIVE Resolve(_, _, _)
\* the loop over the segments: '..' pops, '.' is skipped
Resolve(segments, k, resolved_path) ==
    IF k > Len(segments) THEN resolved_path
    ELSE IF segments[k] = ".."
    THEN Resolve(segments, k + 1,
                 IF resolved_path = <<>> THEN <<>>
                 ELSE SubSeq(resolved_path, 1, Len(resolved_path) - 1))
    ELSE IF segments[k] = "." THEN Resolve(segments, k + 1, resolved_path)
    ELSE Resolve(segments, k + 1, Append(resolved_path, segments[k]))

\* the joined path: the segments of the base and of the reference, resolved
JoinedPath(bpath, path) ==
    LET segments == IF StartsWith(path, "/") THEN Split(path)
                    ELSE FilterInner(BaseParts(bpath) \o Split(path))
        resolved_path == Resolve(segments, 1, <<>>)
        closed == IF segments[Len(segments)] \in {".", ".."}
                  THEN Append(resolved_path, "") ELSE resolved_path
    IN  IF Join(closed) = "" THEN "/" ELSE Join(closed)

\* urlsplit: the netloc of a reference behind its scheme, "" without "//"
Netloc(rest) ==
    LET path == BeforeQuery(rest)
    IN  IF ~StartsWith(path, "//") THEN ""
        ELSE IF Find(path, "/", 3) = 0 THEN SubSeq(path, 3, Len(path))
        ELSE SubSeq(path, 3, Find(path, "/", 3) - 1)

\* netloc.partition('[')[2].partition(']')[0]
BracketedHost(netloc) ==
    LET behind == SubSeq(netloc, Find(netloc, "[", 1) + 1, Len(netloc))
    IN  IF Find(behind, "]", 1) = 0 THEN behind
        ELSE SubSeq(behind, 1, Find(behind, "]", 1) - 1)

\* re.match(r"\Av[a-fA-F0-9]+\..+\Z", hostname) for a hostname that starts
\* with "v"
IsIPvFuture(hostname) ==
    \E k \in 2..(Len(hostname) - 2) :
        /\ \A i \in 2..k : SubSeq(hostname, i, i) \in HexDigits
        /\ SubSeq(hostname, k + 1, k + 1) = "."

\* _check_bracketed_host raises: an IPvFuture address that is invalid, or a
\* text that is no IPv6 address (an IPv4 address in brackets is rejected too)
BracketedHostRaises(hostname) ==
    IF StartsWith(hostname, "v") THEN ~IsIPvFuture(hostname)
    ELSE ~IsIPv6Address(hostname)

\* urlsplit raises ValueError for the reference behind its scheme: a netloc
\* with one of "[" and "]" only, or with a bracketed host that is no address
UrlsplitRaises(rest) ==
    LET netloc == Netloc(rest)
    IN  IF (Find(netloc, "[", 1) > 0) # (Find(netloc, "]", 1) > 0) THEN TRUE
        ELSE IF Find(netloc, "[", 1) > 0 THEN BracketedHostRaises(BracketedHost(netloc))
        ELSE FALSE

\* the outcome of a call that raises ValueError; no URL is this text, every
\* joined URL holding a ":"
ValueError == "ValueError"

\* urlunsplit: a path behind a host starts with "/"
Rooted(path) == IF path # "" /\ ~StartsWith(path, "/") THEN "/" \o path ELSE path

\* urljoin(base, rest) for a reference without scheme: urlsplit raises, or
\* the reference has a netloc and replaces all of the base but its scheme, or
\* its path is joined to the path of the base
JoinRelative(base, rest) ==
    LET path == BeforeQuery(rest)
    IN  IF UrlsplitRaises(rest) THEN ValueError
        ELSE IF Netloc(rest) # ""
        THEN BaseScheme(base) \o ":" \o path \o QueryPart(rest) \o FragmentPart(rest)
        ELSE LET local == IF StartsWith(path, "//") THEN SubSeq(path, 3, Len(path)) ELSE path
             IN  IF local = ""
                 THEN Origin(base) \o BasePath(base) \o QueryPart(rest) \o FragmentPart(rest)
                 ELSE Origin(base) \o Rooted(JoinedPath(BasePath(base), local))
                      \o QueryPart(rest) \o FragmentPart(rest)

\* urljoin(base, url): the reference is split before its scheme is compared
urljoin(base, ref) ==
    IF ref = "" THEN base
    ELSE IF SchemeLen(ref) = 0 THEN JoinRelative(base, ref)
    ELSE IF UrlsplitRaises(SubSeq(ref, SchemeLen(ref) + 2, Len(ref))) THEN ValueError
    ELSE IF Lower(SubSeq(ref, 1, SchemeLen(ref))) # BaseScheme(base) THEN ref
    ELSE JoinRelative(base, SubSeq(ref, SchemeLen(ref) + 2, Len(ref)))

----------------------------------------------------------------------------
(* LogoFinder.__init__ *)

\* mutant: the pattern 'company' is missing from the list
logo_patterns_NoCompany == <<"logo", "brand", "header", "nav", "site">>

\* self.logo_patterns
logo_patterns == <<"logo", "brand", "header", "nav", "company", "site">>

----------------------------------------------------------------------------
(* LogoFinder._score_logo_candidate *)

\* mutant: the band boundaries compared with <=
PositionScore_Inclusive(y_position) ==
    IF y_position <= 150 THEN 30
    ELSE IF y_position <= 300 THEN 20
    ELSE IF y_position <= 600 THEN 10
    ELSE 0

\* Position scoring: the if/elif chain on candidate['position']['y']
PositionScore(y_position) ==
    IF y_position < 150 THEN 30
    ELSE IF y_position < 300 THEN 20
    ELSE IF y_position < 600 THEN 10
    ELSE 0

\* mutant: a width of exactly 400 is outside the first band
SizeScore_Below400(width, height) ==
    IF 100 <= width /\ width < 400 /\ 50 <= height /\ height <= 200 THEN 20
    ELSE IF 50 <= width /\ width <= 600 /\ 20 <= height /\ height <= 300 THEN 10
    ELSE 0

\* mutant: the upper bounds of both bands compared with <
SizeScore_Exclusive(width, height) ==
    IF 100 <= width /\ width < 400 /\ 50 <= height /\ height < 200 THEN 20
    ELSE IF 50 <= width /\ width < 600 /\ 20 <= height /\ height < 300 THEN 10
    ELSE 0

\* Size scoring: the if/elif on width and height
SizeScore(width, height) ==
    IF 100 <= width /\ width <= 400 /\ 50 <= height /\ height <= 200 THEN 20
    ELSE IF 50 <= width /\ width <= 600 /\ 20 <= height /\ height <= 300 THEN 10
    ELSE 0

\* f"{alt} {class} {id} {src}".lower()
TextToCheck(candidate) ==
    Lower(candidate.alt \o " " \o candidate.class \o " " \o candidate.id
          \o " " \o candidate.src)

RECURSIVE PatternScore(_, _)
\* for pattern in self.logo_patterns: if pattern in text_to_check: score += 1.5
\* (the patterns from index k on)
PatternScore(k, text_to_check) ==
    IF k > Len(self.logo_patterns) THEN 0
    ELSE (IF Contains(self.logo_patterns[k], text_to_check) THEN 15 ELSE 0)
         + PatternScore(k + 1, text_to_check)

\* mutant: the three bonuses chained with elif, so that only the first applies
KeywordScore_Elif(text_to_check) ==
    PatternScore(1, text_to_check)
    + (IF Contains("logo", text_to_check) THEN 20
       ELSE IF Contains("brand", text_to_check) THEN 15
       ELSE IF \E term \in {"header", "nav", "brand"} : Contains(term, text_to_check)
       THEN 10 ELSE 0)

\* Keyword scoring and the bonuses for specific terms
KeywordScore(text_to_check) ==
    PatternScore(1, text_to_check)
    + (IF Contains("logo", text_to_check) THEN 20 ELSE 0)
    + (IF Contains("brand", text_to_check) THEN 15 ELSE 0)
    + (IF \E term \in {"header", "nav", "brand"} : Contains(term, text_to_check)
       THEN 10 ELSE 0)

\* mutant: the total is clamped to 10.0
_score_logo_candidate_Clamped(candidate) ==
    LET total == PositionScore(candidate.position.y)
                 + SizeScore(candidate.width, candidate.height)
                 + KeywordScore(TextToCheck(candidate))
    IN  IF total > 100 THEN 100 ELSE total

\* mutant: the position of the image is not scored
_score_logo_candidate_NoPosition(candidate) ==
    SizeScore(candidate.width, candidate.height)
    + KeywordScore(TextToCheck(candidate))

\* _score_logo_candidate(candidate): the three parts are added to score = 0.0
_score_logo_candidate(candidate) ==
    PositionScore(candidate.position.y)
    + SizeScore(candidate.width, candidate.height)
    + KeywordScore(TextToCheck(candidate))

----------------------------------------------------------------------------
(* LogoFinder.find_logo_candidates *)

\* the 10 of `return unique_candidates[:10]`
Limit == 10

\* bounding_box() returned None
NoBox == [missing |-> TRUE]

\* bounding_box() raised (the element is detached, the page is closed)
BoxRaises == [raises |-> TRUE]

\* a call of bounding_box() returned a box
IsBox(box) == box # NoBox /\ box # BoxRaises

\* if not url.startswith(('http://', 'https://')): url = 'https://' + url
EnsureProtocol(u) == IF HasScheme(u) THEN u ELSE "https://" \o u

\* mutant: the position is taken from the box the caller already has
_get_image_position_FirstBox(img_element) ==
    [x |-> img_element.box.x, y |-> img_element.box.y,
     width |-> img_element.box.width, height |-> img_element.box.height]

\* _get_image_position(img_element): its own call of bounding_box(); the
\* zero box when that call returns None or raises
_get_image_position(img_element) ==
    IF IsBox(img_element.box_again)
    THEN [x |-> img_element.box_again.x, y |-> img_element.box_again.y,
          width |-> img_element.box_again.width,
          height |-> img_element.box_again.height]
    ELSE [x |-> 0, y |-> 0, width |-> 0, height |-> 0]

\* mutant: `or` in place of `and`
PassesSizeFilter_Or(width, height) == width >= 50 \/ height >= 20

\* if width >= 50 and height >= 20
PassesSizeFilter(width, height) == width >= 50 /\ height >= 20

\* the body of `for img in images`: the candidates one image adds; none
\* when urljoin or bounding_box() raises (`except Exception: continue`)
DiscoverImage(u, img) ==
    IF img.src # "" /\ urljoin(u, img.src) # ValueError /\ img.box # BoxRaises
    THEN LET absolute_src == urljoin(u, img.src)
             width == IF img.box # NoBox THEN img.box.width ELSE 0
             height == IF img.box # NoBox THEN img.box.height ELSE 0
         IN  IF PassesSizeFilter(width, height)
             THEN << [src |-> absolute_src, alt |-> img.alt, class |-> img.class,
                      id |-> img.id, width |-> width, height |-> height,
                      selector |-> img.selector,
                      position |-> _get_image_position(img)] >>
             ELSE <<>>
    ELSE <<>>

RECURSIVE Discover(_, _, _)
\* the loops over the selectors and their images, from element k of the page on
Discover(u, pg, k) ==
    IF k > Len(pg) THEN <<>>
    ELSE DiscoverImage(u, pg[k]) \o Discover(u, pg, k + 1)

RECURSIVE RemoveDuplicates_KeepLast(_, _, _, _)
\* mutant: a later candidate with a seen src overwrites the one kept
RemoveDuplicates_KeepLast(cands, k, seen_urls, unique_candidates) ==
    IF k > Len(cands) THEN unique_candidates
    ELSE IF cands[k].src \notin seen_urls
         THEN RemoveDuplicates_KeepLast(cands, k + 1, seen_urls \cup {cands[k].src},
                                        Append(unique_candidates, cands[k]))
         ELSE RemoveDuplicates_KeepLast(cands, k + 1, seen_urls,
                  [i \in DOMAIN unique_candidates |->
                      IF unique_candidates[i].src = cands[k].src
                      THEN cands[k] ELSE unique_candidates[i]])

RECURSIVE RemoveDuplicates(_, _, _, _)
\* Remove duplicates based on src URL: the loop from candidate k on
RemoveDuplicates(cands, k, seen_urls, unique_candidates) ==
    IF k > Len(cands) THEN unique_candidates
    ELSE IF cands[k].src \notin seen_urls
         THEN RemoveDuplicates(cands, k + 1, seen_urls \cup {cands[k].src},
                               Append(unique_candidates, cands[k]))
         ELSE RemoveDuplicates(cands, k + 1, seen_urls, unique_candidates)

\* list.sort(key=..., reverse=True) computes each key once
Keyed(cands) == [k \in DOMAIN cands |-> <<_score_logo_candidate(cands[k]), cands[k]>>]

\* mutant: an element enters the sorted list before the elements of equal key
\* (an ascending sort that is then reversed)
InsertDescending_BeforeEqual(sorted, e) ==
    LET n == Cardinality({k \in DOMAIN sorted : sorted[k][1] > e[1]})
    IN  SubSeq(sorted, 1, n) \o <<e>> \o SubSeq(sorted, n + 1, Len(sorted))

\* one element enters the sorted list behind every element whose key is not
\* smaller: reverse=True keeps the original order of equal keys
InsertDescending(sorted, e) ==
    LET n == Cardinality({k \in DOMAIN sorted : sorted[k][1] >= e[1]})
    IN  SubSeq(sorted, 1, n) \o <<e>> \o SubSeq(sorted, n + 1, Len(sorted))

RECURSIVE SortKeyed(_, _, _)
SortKeyed(keyed, k, sorted) ==
    IF k > Len(keyed) THEN sorted
    ELSE SortKeyed(keyed, k + 1, InsertDescending(sorted, keyed[k]))

\* unique_candidates.sort(key=self._score_logo_candidate, reverse=True)
SortByScore(unique_candidates) ==
    LET sorted == SortKeyed(Keyed(unique_candidates), 1, <<>>)
    IN  [k \in DOMAIN sorted |-> sorted[k][2]]

\* mutant: the list is returned without the slice
Top_All(unique_candidates) == unique_candidates

\* mutant: only the best candidate is returned
Top_One(unique_candidates) ==
    SubSeq(unique_candidates, 1, IF Len(unique_candidates) < 1 THEN 0 ELSE 1)

\* unique_candidates[:10]
Top(unique_candidates) ==
    SubSeq(unique_candidates, 1,
           IF Len(unique_candidates) < Limit THEN Len(unique_candidates) ELSE Limit)

\* the value find_logo_candidates returns once the page is loaded
RankCandidates(cands) == Top(SortByScore(RemoveDuplicates(cands, 1, {}, <<>>)))

----------------------------------------------------------------------------
(* LogoFinder.download_image, validate_logo_with_ai, process_website *)

\* self.max_image_size
max_image_size == 20 * 1024 * 1024

\* None, for image bytes that are modelled by their length
None == 0 - 1

\* mutant: an image of exactly max_image_size is refused too
download_image_AtLeast(response) ==
    IF ~response.ok THEN None
    ELSE IF response.length >= max_image_size THEN None
    ELSE response.length

\* download_image(image_url) for a response of the server: None when the
\* request raises or the content is longer than max_image_size
download_image(response) ==
    IF ~response.ok THEN None
    ELSE IF response.length > max_image_size THEN None
    ELSE response.length

\* `not image_bytes`: None and b'' are both falsy
NotImageBytes(image_bytes) == image_bytes = None \/ image_bytes = 0

\* validate_logo_with_ai(image_bytes, url, name) for an answer of the vision
\* API: the fallback dict when the call raises or the text is not JSON
validate_logo_with_ai(answer) ==
    IF answer.kind = "json"
    THEN [type |-> "dict", is_logo |-> answer.is_logo,
          confidence |-> answer.confidence, confidence_type |-> "int",
          reasoning |-> "as answered"]
    ELSE IF answer.kind = "json_text_confidence"
    THEN [type |-> "dict", is_logo |-> answer.is_logo,
          confidence |-> 0, confidence_type |-> "str",
          reasoning |-> "as answered"]
    ELSE IF answer.kind = "json_list"
    THEN [type |-> "list", is_logo |-> FALSE,
          confidence |-> 0, confidence_type |-> "int", reasoning |-> ""]
    ELSE IF answer.kind = "not_json"
    THEN [type |-> "dict", is_logo |-> FALSE,
          confidence |-> 0, confidence_type |-> "int",
          reasoning |-> "Could not parse AI response"]
    ELSE [type |-> "dict", is_logo |-> FALSE,
          confidence |-> 0, confidence_type |-> "int",
          reasoning |-> "API error: timeout"]

\* the accept test raises: AttributeError on .get of a value that is not a
\* dict, TypeError on >= between a str and 70 (reached when is_logo is true)
AcceptTestRaises(validation) ==
    \/ validation.type # "dict"
    \/ validation.is_logo /\ validation.confidence_type # "int"

\* str(e) of that exception
ErrorText(validation) ==
    IF validation.type # "dict"
    THEN "'list' object has no attribute 'get'"
    ELSE "'>=' not supported between instances of 'str' and 'int'"

\* mutant: the delay doubles
api_delay_Two == 1 + 1

\* await asyncio.sleep(1) behind a rejected validation
api_delay == 1

\* mutant: `if candidates is None`, which a list never is
NoCandidates_IsNone(cands) == FALSE

\* `if not candidates`
NoCandidates(cands) == Len(cands) = 0

\* mutant: the confidence has to be above 70
Accepted_Above70(validation) == validation.is_logo /\ validation.confidence > 70

\* validation.get("is_logo", False) and validation.get("confidence", 0) >= 70
Accepted(validation) == validation.is_logo /\ validation.confidence >= 70

\* the result dict process_website starts from
InitialResult(u, website_name) ==
    [url |-> u, website_name |-> website_name, logo_found |-> FALSE,
     logo_url |-> "", logo_confidence |-> 0, candidates_found |-> 0, error |-> ""]

----------------------------------------------------------------------------
(* Values before any call *)

\* no score computed yet (None); every score is >= 0
NoScore == 0 - 1

NoCandidate ==
    [src |-> "", alt |-> "", class |-> "", id |-> "", width |-> 0, height |-> 0,
     selector |-> "", position |-> [x |-> 0, y |-> 0, width |-> 0, height |-> 0]]

NoResult == InitialResult("", "")

NoResponse == [ok |-> FALSE, length |-> 0 - 1]

NoValidation ==
    [type |-> "none", is_logo |-> FALSE, confidence |-> 0, confidence_type |-> "int",
     reasoning |-> ""]

\* LogoFinder.__init__: the fields the model reads
LogoFinderFields ==
    [screenshot_width |-> 1920, screenshot_height |-> 1080, timeout |-> 30000,
     max_image_size |-> max_image_size, logo_patterns |-> logo_patterns]

\* no download and no validation yet
WebsiteIdle ==
    /\ last_response = NoResponse
    /\ last_image_bytes = None
    /\ last_validation = NoValidation

\* no call of filter_restaurants_batch
FilterIdle ==
    /\ restaurants_data = <<>>
    /\ filtered_restaurants = <<>>
    /\ ai_responses = <<>>

\* contact_info = {}
NoContactInfo == [keys |-> {}, email |-> "", additional_emails |-> <<>>]

\* no call of extract_contact_from_text
ContactIdle ==
    /\ result_text = <<>>
    /\ contact_info = NoContactInfo

\* place_type=None
NoPlaceType == "None"

\* no call of search_places
PlacesIdle ==
    /\ place_type = NoPlaceType
    /\ requests = <<>>
    /\ food_type = 0
    /\ places = <<>>
    /\ all_places = <<>>
    /\ found_places = <<>>

\* output_file: str = None
NoOutputFile == "None"

\* no call of process_restaurants or process_urls
QualifyIdle == output_file = NoOutputFile

\* nothing of the other classes runs
OtherClassesIdle ==
    /\ FilterIdle
    /\ ContactIdle
    /\ PlacesIdle
    /\ QualifyIdle
    /\ img_idx = 0

\* no download, validation, delay, batch or concurrent call yet
OthersIdle ==
    /\ WebsiteIdle
    /\ log = <<>>
    /\ rows = <<>>
    /\ results = <<>>
    /\ row_idx = 0
    /\ saved = <<>>
    /\ self = LogoFinderFields
    /\ OtherClassesIdle
    /\ calls = <<>>

----------------------------------------------------------------------------
(* Inputs of the direct calls of _score_logo_candidate *)

MaxY == 700
MaxWidth == 601
MaxHeight == 301

Candidate(src, alt, class, id, width, height, y) ==
    [src |-> src, alt |-> alt, class |-> class, id |-> id,
     width |-> width, height |-> height, selector |-> "img",
     position |-> [x |-> 0, y |-> y, width |-> width, height |-> height]]

AltSamples == {"", "Company Logo", "Site NAV", "Our brands", "Lo"}
ClassSamples == {"", "navbar-brand", "Header-img", "hero", "go"}
IdSamples == {"", "logo", "LOGO2"}
SrcSamples ==
    {"https://a.io/img/1.png", "https://a.io/logo.png",
     "https://mysite.io/company-logo.png", "https://a.io/navi/brand.svg"}

\* every y, with a size and a text of each kind
YSweep ==
    {Candidate("/1.png", "", "", "", 200, 100, y) : y \in (0 - 1)..MaxY}
    \cup
    {Candidate(src, "", "", "", 40, 10, y) :
        src \in {"/1.png", "/logo.png"}, y \in {0 - 1, 0, 149, 150, 299, 300, 599, 600, MaxY}}

\* every width against the boundary heights, every height against the
\* boundary widths
SizeSweep ==
    {Candidate("/1.png", "", "", "", w, h, 50) :
        w \in 0..MaxWidth, h \in {0, 19, 20, 49, 50, 200, 201, 300, 301}}
    \cup
    {Candidate("/1.png", "", "", "", w, h, 700) :
        w \in {0, 49, 50, 99, 100, 400, 401, 600, 601}, h \in 0..MaxHeight}

\* every combination of the sample texts
TextSweep ==
    {Candidate(src, alt, class, id, wh[1], wh[2], y) :
        src \in SrcSamples, alt \in AltSamples, class \in ClassSamples,
        id \in IdSamples, wh \in {<<200, 100>>, <<500, 250>>}, y \in {50, 700}}

\* every keyword at the top of the page in the ideal size, once and repeated
FullSweep ==
    {Candidate("https://mysite.io/company-logo.png", "Site NAV", "header brand",
               "logo", 200, 100, 50),
     Candidate("https://mysite.io/company-logo.png/logo/brand-logo.png",
               "Site NAV logo LOGO brand", "header brand nav navbar", "logo",
               200, 100, 50)}

ScoreInputs == YSweep \cup SizeSweep \cup TextSweep \cup FullSweep

----------------------------------------------------------------------------
(* Specification SpecScore: one direct call of _score_logo_candidate *)

ScoreInit ==
    /\ pc = "score_call"
    /\ open_pages = 0
    /\ cand \in ScoreInputs
    /\ score = NoScore
    /\ url = ""
    /\ page = <<>>
    /\ logo_candidates = <<>>
    /\ candidates = <<>>
    /\ result = NoResult
    /\ idx = 0
    /\ downloads = <<>>
    /\ validations = <<>>
    /\ OthersIdle

\* score = self._score_logo_candidate(cand)
ScoreCall ==
    /\ pc = "score_call"
    /\ score' = _score_logo_candidate(cand)
    /\ pc' = "score_return"
    /\ UNCHANGED <<open_pages, url, page, logo_candidates, candidates, cand, result,
                   idx, downloads, validations>>
    /\ UNCHANGED <<website_vars, batch_vars, self, calls, other_vars, img_idx>>

ScoreNext == ScoreCall

SpecScore == ScoreInit /\ [][ScoreNext]_vars

----------------------------------------------------------------------------
(* Pages *)

MaxRich == 2
MaxFillers == 11

Img(src, alt, class, id, width, height, y, selector) ==
    [src |-> src, alt |-> alt, class |-> class, id |-> id, selector |-> selector,
     box |-> [x |-> 10, y |-> y, width |-> width, height |-> height],
     box_again |-> [x |-> 10, y |-> y, width |-> width, height |-> height]]

\* an image whose two bounding_box() calls, the one in find_logo_candidates
\* and the one in _get_image_position, give box and box_again
ImgBoxes(src, alt, box, box_again) ==
    [src |-> src, alt |-> alt, class |-> "", id |-> "", selector |-> "img",
     box |-> box, box_again |-> box_again]

Box(y, width, height) == [x |-> 10, y |-> y, width |-> width, height |-> height]

Pool ==
    { Img("/logo.png", "Company Logo", "", "", 200, 100, 50, "header img"),
      Img("https://a.io/logo.png", "", "hero", "", 300, 150, 700, "footer img"),
      Img("/logo.png?v=2", "", "", "", 200, 100, 50, "header img"),
      Img("/company-logo.png", "Company Logo", "", "", 200, 100, 50, "header img"),
      Img("/company-logo.png/", "", "", "", 200, 100, 50, "header img"),
      Img("/img/1.png", "", "", "", 200, 100, 50, "header img"),
      Img("/img/2.png", "", "", "", 200, 100, 700, "header img"),
      Img("/small-logo.png", "Company Logo", "brand", "logo", 40, 100, 50, "header img"),
      Img("min.png", "", "", "", 50, 20, 50, "header img"),
      Img("/flat-logo.png", "Company Logo", "", "", 200, 19, 50, "header img"),
      [src |-> "/nobox-logo.png", alt |-> "Logo", class |-> "", id |-> "",
       selector |-> "header img", box |-> NoBox, box_again |-> NoBox],
      Img("", "Company Logo", "", "", 200, 100, 50, "header img") }

\* three images in discovery order: one near the top with 'site logo' as alt
\* text, one far down without text at another src, and one with the src of
\* the first and other attributes
ScenarioPage ==
    << Img("/a.png", "site logo", "", "", 200, 100, 100, "header img"),
       Img("/b.png", "", "", "", 200, 100, 700, "img"),
       Img("/a.png", "Brand logo", "nav", "logo", 300, 150, 50, "img") >>

\* images whose bounding box is missing or fails at the first or at the
\* second call, or differs between the calls, images whose src urljoin
\* rejects, and a plain image
BoxPool ==
    { ImgBoxes("/gone-logo.png", "", Box(700, 200, 100), NoBox),
      ImgBoxes("//[", "Logo", Box(50, 200, 100), Box(50, 200, 100)),
      ImgBoxes("https://[1.2.3.4]/logo.png", "Logo", Box(50, 200, 100), Box(50, 200, 100)),
      ImgBoxes("/detached.png", "Logo", Box(700, 500, 250), BoxRaises),
      ImgBoxes("/raises-logo.png", "Logo", BoxRaises, BoxRaises),
      ImgBoxes("/late.png", "", NoBox, Box(50, 200, 100)),
      ImgBoxes("/moved.png", "", Box(700, 200, 100), Box(100, 210, 110)),
      Img("/img/2.png", "", "", "", 200, 100, 700, "header img") }

BoxPages == UNION {[1..n -> BoxPool] : n \in 1..2}

\* decimal text of k < 100
ToStr(k) == (IF k >= 10 THEN Digits[(k \div 10) + 1] ELSE "") \o Digits[(k % 10) + 1]

\* the k-th of a column of plain images down the page
Filler(k) == Img("/f" \o ToStr(k) \o ".png", "", "", "", 120, 60, 100 * k, "img")

Fillers(n) == [k \in 1..n |-> Filler(k)]

RichSeqs == UNION {[1..n -> Pool] : n \in 0..MaxRich}

RankPages ==
    RichSeqs
    \cup {Fillers(MaxFillers) \o r : r \in RichSeqs}
    \cup {r \o Fillers(MaxFillers) : r \in RichSeqs}
    \cup {ScenarioPage}
    \cup BoxPages

Urls == {"a.io/menu/"}

----------------------------------------------------------------------------
(* Specification SpecRank: one call of find_logo_candidates *)

\* the website to visit and what it serves
RankInit ==
    /\ pc = "idle"
    /\ open_pages = 0
    /\ url \in Urls
    /\ page \in RankPages
    /\ logo_candidates = <<>>
    /\ candidates = <<>>
    /\ cand = NoCandidate
    /\ score = NoScore
    /\ result = NoResult
    /\ idx = 0
    /\ downloads = <<>>
    /\ validations = <<>>
    /\ OthersIdle

\* what find_logo_candidates leaves alone
find_frame ==
    <<url, page, cand, score, result, idx, downloads, validations, website_vars,
      batch_vars, self, calls, other_vars>>

\* page = await browser.new_page(): the page is open from here on
FindNewPage ==
    /\ pc = "idle"
    /\ open_pages' = open_pages + 1
    /\ pc' = "find_goto"
    /\ UNCHANGED <<logo_candidates, candidates, img_idx>>
    /\ UNCHANGED find_frame

\* await page.goto(url, ...) and wait_for_timeout(2000) on a page that loads
FindGoto ==
    /\ pc = "find_goto"
    /\ pc' = "find_discover"
    /\ UNCHANGED <<open_pages, logo_candidates, candidates, img_idx>>
    /\ UNCHANGED find_frame

\* page.goto raises: the except branch returns [] and page.close() is not
\* reached
FindLogoCandidatesFails ==
    /\ pc = "find_goto"
    /\ logo_candidates' = <<>>
    /\ candidates' = <<>>
    /\ pc' = "find_failed"
    /\ UNCHANGED <<open_pages, img_idx>>
    /\ UNCHANGED find_frame

\* one image of the loops over self.logo_selectors and the images that
\* query_selector_all gives: its attributes and its bounding box are awaited
\* and its candidate, if any, is appended
FindDiscover ==
    /\ pc = "find_discover"
    /\ img_idx < Len(page)
    /\ logo_candidates' =
          logo_candidates \o DiscoverImage(EnsureProtocol(url), page[img_idx + 1])
    /\ img_idx' = img_idx + 1
    /\ UNCHANGED <<pc, open_pages, candidates>>
    /\ UNCHANGED find_frame

\* behind the last image: the duplicates are removed and the candidates
\* sorted, then await page.close() and return unique_candidates[:10]
FindLogoCandidates ==
    /\ pc = "find_discover"
    /\ img_idx = Len(page)
    /\ candidates' = RankCandidates(logo_candidates)
    /\ open_pages' = open_pages - 1
    /\ pc' = "find_returned"
    /\ UNCHANGED <<logo_candidates, img_idx>>
    /\ UNCHANGED find_frame

RankNext ==
    \/ FindNewPage
    \/ FindGoto
    \/ FindLogoCandidatesFails
    \/ FindDiscover
    \/ FindLogoCandidates

SpecRank == RankInit /\ [][RankNext]_vars

----------------------------------------------------------------------------
(* Specification Spec: one call of process_website *)

\* images of the websites process_website visits: two that give the same
\* absolute src, one more, and one without src
WebPool ==
    { Img("/logo.png", "Company Logo", "", "", 200, 100, 50, "header img"),
      Img("https://a.io/logo.png", "", "hero", "", 300, 150, 700, "footer img"),
      Img("/img/2.png", "", "", "", 200, 100, 700, "header img"),
      Img("", "Company Logo", "", "", 200, 100, 50, "header img") }

WebPages == UNION {[1..n -> WebPool] : n \in 0..MaxRich} \cup {Fillers(MaxFillers)}

WebsiteName == "Cafe A"

DownloadResponses ==
    {[ok |-> FALSE, length |-> 0]}
    \cup {[ok |-> TRUE, length |-> n] :
            n \in {0, 2048, max_image_size, max_image_size + 1}}

ApiAnswers ==
    {[kind |-> "error", is_logo |-> FALSE, confidence |-> 0],
     [kind |-> "not_json", is_logo |-> FALSE, confidence |-> 0],
     [kind |-> "json_list", is_logo |-> FALSE, confidence |-> 0],
     [kind |-> "json_text_confidence", is_logo |-> FALSE, confidence |-> 0],
     [kind |-> "json_text_confidence", is_logo |-> TRUE, confidence |-> 0]}
    \cup {[kind |-> "json", is_logo |-> b, confidence |-> c] :
            b \in BOOLEAN, c \in {0, 69, 70, 100}}

Init ==
    /\ pc = "idle"
    /\ open_pages = 0
    /\ url \in Urls
    /\ page \in WebPages
    /\ logo_candidates = <<>>
    /\ candidates = <<>>
    /\ cand = NoCandidate
    /\ score = NoScore
    /\ result = InitialResult(url, WebsiteName)
    /\ idx = 0
    /\ downloads = <<>>
    /\ validations = <<>>
    /\ OthersIdle

\* mutant: the loop ends without a message when no candidate was accepted
AfterLoop_Silent(res) == res

\* `if not result["logo_found"]` behind the loop
AfterLoop(res) ==
    IF ~res.logo_found
    THEN [res EXCEPT !.error = "No valid logos found among candidates"]
    ELSE res

\* process_website after `candidates = await self.find_logo_candidates(...)`:
\* candidates_found, the return when there are no candidates, the entry of
\* the loop (a loop over no candidate ends at once)
ProcessWebsiteStart ==
    /\ pc \in {"find_returned", "find_failed"}
    /\ LET started == [result EXCEPT !.candidates_found = Len(candidates)]
       IN  IF NoCandidates(candidates)
           THEN /\ result' = [started EXCEPT !.error = "No logo candidates found"]
                /\ pc' = "pw_returned"
           ELSE IF Len(candidates) = 0
           THEN /\ result' = AfterLoop(started)
                /\ pc' = "pw_returned"
           ELSE /\ result' = started
                /\ pc' = "pw_loop"
    /\ idx' = 0
    /\ UNCHANGED <<open_pages, url, page, logo_candidates, candidates, cand, score,
                   downloads, validations>>
    /\ UNCHANGED <<website_vars, batch_vars, self, calls, other_vars, img_idx>>

\* `continue` in an iteration: the next iteration, or after the last
\* candidate the end of the loop and the return
NextCandidate ==
    /\ idx' = idx + 1
    /\ IF idx + 1 < Len(candidates)
       THEN UNCHANGED <<pc, result>>
       ELSE /\ result' = AfterLoop(result)
            /\ pc' = "pw_returned"

\* one iteration of `for i, candidate in enumerate(candidates)` whose download
\* gives no bytes: continue
SkipCandidate ==
    /\ pc = "pw_loop"
    /\ idx < Len(candidates)
    /\ \E response \in DownloadResponses :
          /\ NotImageBytes(download_image(response))
          /\ last_response' = response
          /\ last_image_bytes' = download_image(response)
    /\ downloads' = Append(downloads, candidates[idx + 1].src)
    /\ log' = Append(log, [op |-> "download", src |-> candidates[idx + 1].src])
    /\ NextCandidate
    /\ UNCHANGED <<open_pages, url, page, logo_candidates, candidates, cand, score,
                   validations, last_validation>>
    /\ UNCHANGED <<batch_vars, self, calls, other_vars, img_idx>>

\* one iteration that downloads the image and validates it: the accept test
\* raises into the except of process_website, or accepts and breaks, or
\* rejects and awaits asyncio.sleep(1) at the end of the iteration
TestCandidate ==
    /\ pc = "pw_loop"
    /\ idx < Len(candidates)
    /\ \E response \in DownloadResponses, answer \in ApiAnswers :
          /\ ~NotImageBytes(download_image(response))
          /\ LET candidate == candidates[idx + 1]
                 validation == validate_logo_with_ai(answer)
                 called == log \o <<[op |-> "download", src |-> candidate.src],
                                    [op |-> "validate", src |-> candidate.src]>>
             IN  /\ last_response' = response
                 /\ last_image_bytes' = download_image(response)
                 /\ last_validation' = validation
                 /\ downloads' = Append(downloads, candidate.src)
                 /\ validations' = Append(validations, candidate.src)
                 /\ IF AcceptTestRaises(validation)
                    THEN /\ result' = [result EXCEPT !.error = ErrorText(validation)]
                         /\ pc' = "pw_returned"
                         /\ idx' = idx
                         /\ log' = called
                    ELSE IF Accepted(validation)
                    THEN /\ result' = [result EXCEPT
                                          !.logo_found = TRUE,
                                          !.logo_url = candidate.src,
                                          !.logo_confidence = validation.confidence]
                         /\ pc' = "pw_returned"
                         /\ idx' = idx
                         /\ log' = called
                    ELSE /\ idx' = idx + 1
                         /\ log' = Append(called, [op |-> "sleep", seconds |-> api_delay])
                         /\ UNCHANGED <<pc, result>>
    /\ UNCHANGED <<open_pages, url, page, logo_candidates, candidates, cand, score>>
    /\ UNCHANGED <<batch_vars, self, calls, other_vars, img_idx>>

\* behind the sleep of the last iteration: the loop ends,
\* `if not result["logo_found"]` sets the error and the result is returned
ProcessWebsiteReturn ==
    /\ pc = "pw_loop"
    /\ idx = Len(candidates)
    /\ result' = AfterLoop(result)
    /\ pc' = "pw_returned"
    /\ UNCHANGED <<open_pages, url, page, logo_candidates, candidates, cand, score, idx,
                   downloads, validations>>
    /\ UNCHANGED <<website_vars, batch_vars, self, calls, other_vars, img_idx>>

Next ==
    \/ FindNewPage
    \/ FindGoto
    \/ FindLogoCandidatesFails
    \/ FindDiscover
    \/ FindLogoCandidates
    \/ ProcessWebsiteStart
    \/ SkipCandidate
    \/ TestCandidate
    \/ ProcessWebsiteReturn

Spec == Init /\ [][Next]_vars

----------------------------------------------------------------------------
(* Specification SpecBatch: the batch loops LogoFinder.process_csv_file,    *)
(* EmailFinderAgent.process_all_restaurants and                             *)
(* BackgroundGenerator.process_csv_batch, with the processing of one row    *)
(* as one step                                                              *)

MaxRows == 3
LongBatch == 11

\* an exception that leaves the called function
Raised == [raised |-> TRUE]

\* what a website does to process_website: its one candidate is accepted, is
\* validated and rejected, or cannot be downloaded, the page does not load,
\* the accept test raises
WebsiteOutcomes == {"logo", "no_valid", "download_fails", "load_fails", "raises"}

\* what a restaurant does to find_contact_info_for_restaurant: the agent
\* finds an email or a contact form, finishes without either, or raises, or
\* the row has no 'restaurant_name'
RestaurantOutcomes == {"ok", "no_contact", "agent_fails", "bad_row"}

\* what a logo does to process_single_logo
LogoOutcomes == {"ok", "fails"}

BatchFunctions == {"process_csv_file", "process_all_restaurants", "process_csv_batch"}

\* an empty cell of the file, NaN after pd.read_csv
NaN == "nan"

\* the rows of the file of process_csv_file: a website of one of the
\* outcomes, or a row whose url cell is empty
CsvRows == WebsiteOutcomes \cup {"no_url"}

Outcomes(fn) ==
    IF fn = "process_csv_file" THEN CsvRows
    ELSE IF fn = "process_all_restaurants" THEN RestaurantOutcomes
    ELSE LogoOutcomes

\* row k of the input file
Row(k, outcome) ==
    [url |-> IF outcome = "no_url" THEN NaN ELSE "s" \o ToStr(k) \o ".io",
     name |-> "Cafe " \o ToStr(k), outcome |-> outcome]

RowsOf(outcomes) == [k \in DOMAIN outcomes |-> Row(k, outcomes[k])]

\* every short file, and the long files with one row that differs
BatchInputs(fn) ==
    {RowsOf(o) : o \in UNION {[1..n -> Outcomes(fn)] : n \in 0..MaxRows}}
    \cup {RowsOf([k \in 1..LongBatch |-> IF k = f THEN a ELSE b]) :
             f \in 1..LongBatch, a \in Outcomes(fn), b \in Outcomes(fn)}

\* urls = df[url_column].dropna().tolist()
urls(df) == SelectSeq(df, LAMBDA row : row.url # NaN)

\* names = df[name_column].tolist()
names(df) == df

\* zip(urls, names): the k-th url that is not empty with the k-th name
Zip(df) ==
    [k \in 1..(IF Len(urls(df)) < Len(names(df)) THEN Len(urls(df))
               ELSE Len(names(df))) |->
        [url |-> urls(df)[k].url, name |-> names(df)[k].name,
         outcome |-> urls(df)[k].outcome]]

\* the result dict process_website returns for the website of a row
WebsiteResult(row) ==
    LET started == InitialResult(row.url, row.name)
    IN  IF row.outcome = "logo"
        THEN [started EXCEPT !.candidates_found = 1,
                             !.logo_found = TRUE,
                             !.logo_url = "https://" \o row.url \o "/logo.png",
                             !.logo_confidence = 70]
        ELSE IF row.outcome \in {"no_valid", "download_fails"}
        THEN AfterLoop([started EXCEPT !.candidates_found = 1])
        ELSE IF row.outcome = "load_fails"
        THEN [started EXCEPT !.error = "No logo candidates found"]
        ELSE [started EXCEPT !.candidates_found = 1,
                             !.error = "'list' object has no attribute 'get'"]

\* mutant: process_website without its `except Exception`
process_website_NoExcept(row) ==
    IF row.outcome = "raises" THEN Raised ELSE WebsiteResult(row)

\* process_website(url, name, browser) as one step: every exception is caught
\* and recorded in result["error"]
process_website(row) == WebsiteResult(row)

\* find_contact_info_for_restaurant(restaurant): a KeyError in front of its
\* try leaves the function, an exception of the agent gives an error record
find_contact_info_for_restaurant(row) ==
    IF row.outcome = "bad_row" THEN Raised
    ELSE IF row.outcome = "agent_fails"
    THEN [restaurant_name |-> row.name, url |-> row.url,
          search_status |-> "error", error_details |-> "agent failed"]
    ELSE IF row.outcome = "no_contact"
    THEN [restaurant_name |-> row.name, url |-> row.url,
          search_status |-> "no_contact_found", error_details |-> ""]
    ELSE [restaurant_name |-> row.name, url |-> row.url,
          search_status |-> "success", error_details |-> ""]

\* process_single_logo(logo_path, company_name, ...): every exception is
\* caught and recorded under 'error'
process_single_logo(row) ==
    IF row.outcome = "fails"
    THEN [company_name |-> row.name, url |-> row.url, error |-> "analysis failed"]
    ELSE [company_name |-> row.name, url |-> row.url, error |-> ""]

\* await asyncio.sleep(2) behind every website
website_delay == 2

\* await asyncio.sleep(2) behind every restaurant that was saved
restaurant_delay == 2

BatchInit ==
    /\ pc \in BatchFunctions
    /\ rows \in BatchInputs(pc)
    /\ results = <<>>
    /\ row_idx = 0
    /\ saved = <<>>
    /\ log = <<>>
    /\ open_pages = 0
    /\ url = ""
    /\ page = <<>>
    /\ logo_candidates = <<>>
    /\ candidates = <<>>
    /\ cand = NoCandidate
    /\ score = NoScore
    /\ result = NoResult
    /\ idx = 0
    /\ downloads = <<>>
    /\ validations = <<>>
    /\ WebsiteIdle
    /\ self = LogoFinderFields
    /\ OtherClassesIdle
    /\ calls = <<>>

\* the variables no batch loop touches
batch_frame ==
    <<url, page, logo_candidates, candidates, cand, score, result, idx, downloads,
      validations, last_response, last_image_bytes, last_validation, rows, self, calls,
      other_vars, img_idx>>

\* the head of one iteration of `for i, (url, name) in enumerate(zip(urls,
\* names))`: process_website is called
ProcessCsvFileCall ==
    /\ pc = "process_csv_file"
    /\ row_idx < Len(Zip(rows))
    /\ log' = Append(log, [op |-> "process_website", row |-> row_idx + 1])
    /\ pc' = "process_csv_file.new_page"
    /\ UNCHANGED <<results, row_idx, saved, open_pages>>
    /\ UNCHANGED batch_frame

\* inside process_website, find_logo_candidates: await browser.new_page()
ProcessCsvFileNewPage ==
    /\ pc = "process_csv_file.new_page"
    /\ open_pages' = open_pages + 1
    /\ pc' = "process_csv_file.page_open"
    /\ UNCHANGED <<results, row_idx, saved, log>>
    /\ UNCHANGED batch_frame

\* the end of find_logo_candidates: await page.close(), or the page is left
\* open when page.goto raised; the download and the validation of
\* process_website follow without an await, and behind a validation that
\* rejected the candidate `await asyncio.sleep(1)`. The log of a batch holds
\* the calls of process_website and the delays, not its downloads and
\* validations
ProcessCsvFileClosePage ==
    /\ pc = "process_csv_file.page_open"
    /\ open_pages' = IF Zip(rows)[row_idx + 1].outcome = "load_fails"
                     THEN open_pages ELSE open_pages - 1
    /\ log' = IF Zip(rows)[row_idx + 1].outcome = "no_valid"
              THEN Append(log, [op |-> "sleep", seconds |-> api_delay])
              ELSE log
    /\ pc' = "process_csv_file.process_website"
    /\ UNCHANGED <<results, row_idx, saved>>
    /\ UNCHANGED batch_frame

\* process_website returns: append, the save of every 10th website, the
\* delay; the loop has no except, an exception would leave through `finally`
ProcessCsvFileStep ==
    /\ pc = "process_csv_file.process_website"
    /\ LET row == Zip(rows)[row_idx + 1]
           res == process_website(row)
       IN  IF res = Raised
           THEN /\ pc' = "process_csv_file_raised"
                /\ open_pages' = 0
                /\ UNCHANGED <<results, row_idx, saved, log>>
           ELSE /\ results' = Append(results, res)
                /\ saved' = IF (row_idx + 1) % 10 = 0 THEN results' ELSE saved
                /\ log' = Append(log, [op |-> "sleep", seconds |-> website_delay])
                /\ row_idx' = row_idx + 1
                /\ pc' = "process_csv_file"
                /\ UNCHANGED open_pages
    /\ UNCHANGED batch_frame

\* behind the loop: `finally: await browser.close()`, which closes the pages
\* left open
ProcessCsvFileCloseBrowser ==
    /\ pc = "process_csv_file"
    /\ row_idx = Len(Zip(rows))
    /\ open_pages' = 0
    /\ pc' = "process_csv_file.browser_closed"
    /\ UNCHANGED <<results, row_idx, saved, log>>
    /\ UNCHANGED batch_frame

\* behind `async with async_playwright()`: the final save, return results
ProcessCsvFileReturn ==
    /\ pc = "process_csv_file.browser_closed"
    /\ saved' = results
    /\ pc' = "process_csv_file_returned"
    /\ UNCHANGED <<results, row_idx, log, open_pages>>
    /\ UNCHANGED batch_frame

\* the head of one iteration of `for index, restaurant in
\* restaurants_df.iterrows()`: find_contact_info_for_restaurant is called
ProcessAllRestaurantsCall ==
    /\ pc = "process_all_restaurants"
    /\ row_idx < Len(rows)
    /\ log' = Append(log, [op |-> "find_contact_info_for_restaurant", row |-> row_idx + 1])
    /\ pc' = "process_all_restaurants.find"
    /\ UNCHANGED <<results, row_idx, saved, open_pages>>
    /\ UNCHANGED batch_frame

\* the search returns: append, save_results, the delay; or it raises:
\* `except Exception: continue`
ProcessAllRestaurantsStep ==
    /\ pc = "process_all_restaurants.find"
    /\ LET res == find_contact_info_for_restaurant(rows[row_idx + 1])
       IN  IF res = Raised
           THEN UNCHANGED <<results, saved, log>>
           ELSE /\ results' = Append(results, res)
                /\ saved' = results'
                /\ log' = Append(log, [op |-> "sleep", seconds |-> restaurant_delay])
    /\ row_idx' = row_idx + 1
    /\ pc' = "process_all_restaurants"
    /\ UNCHANGED open_pages
    /\ UNCHANGED batch_frame

\* behind the loop (at once when there is no restaurant)
ProcessAllRestaurantsReturn ==
    /\ pc = "process_all_restaurants"
    /\ row_idx = Len(rows)
    /\ pc' = "process_all_restaurants_returned"
    /\ UNCHANGED <<results, row_idx, saved, log, open_pages>>
    /\ UNCHANGED batch_frame

\* one iteration of `for idx, row in df.iterrows()`: process_single_logo,
\* append; an exception would leave through `except Exception: raise`
ProcessCsvBatchStep ==
    /\ pc = "process_csv_batch"
    /\ row_idx < Len(rows)
    /\ LET res == process_single_logo(rows[row_idx + 1])
           call == [op |-> "process_single_logo", row |-> row_idx + 1]
       IN  /\ log' = Append(log, call)
           /\ IF res = Raised
              THEN /\ pc' = "process_csv_batch_raised"
                   /\ UNCHANGED <<results, row_idx>>
              ELSE /\ results' = Append(results, res)
                   /\ row_idx' = row_idx + 1
                   /\ pc' = pc
    /\ UNCHANGED <<saved, open_pages>>
    /\ UNCHANGED batch_frame

\* behind the loop: the results are written to the results file
ProcessCsvBatchReturn ==
    /\ pc = "process_csv_batch"
    /\ row_idx = Len(rows)
    /\ saved' = results
    /\ pc' = "process_csv_batch_returned"
    /\ UNCHANGED <<results, row_idx, log, open_pages>>
    /\ UNCHANGED batch_frame

BatchNext ==
    \/ ProcessCsvFileCall
    \/ ProcessCsvFileNewPage
    \/ ProcessCsvFileClosePage
    \/ ProcessCsvFileStep
    \/ ProcessCsvFileCloseBrowser
    \/ ProcessCsvFileReturn
    \/ ProcessAllRestaurantsCall
    \/ ProcessAllRestaurantsStep
    \/ ProcessAllRestaurantsReturn
    \/ ProcessCsvBatchStep
    \/ ProcessCsvBatchReturn

SpecBatch == BatchInit /\ [][BatchNext]_vars

----------------------------------------------------------------------------
(* Specification SpecCalls: calls of _score_logo_candidate and of           *)
(* find_logo_candidates on one LogoFinder, interleaved at their awaits      *)

MaxCallImages == 2

\* the coroutines running on the event loop
Callers == {1, 2}

CallPool ==
    { Img("/logo.png", "Company Logo", "", "", 200, 100, 50, "header img"),
      Img("/img/2.png", "", "", "", 200, 100, 700, "header img") }

CallPages == UNION {[1..n -> CallPool] : n \in 0..MaxCallImages}

\* the locals of a call of find_logo_candidates(url, browser) in front of
\* its first statement
RankCall(u, pg) ==
    [fn |-> "find_logo_candidates", pc |-> "start", url |-> u, page |-> pg,
     k |-> 1, logo_candidates |-> <<>>, candidates |-> <<>>,
     cand |-> NoCandidate, scores |-> <<>>]

\* a caller that scores one candidate twice, in front of the first call
ScoreTwice(candidate) ==
    [fn |-> "_score_logo_candidate", pc |-> "start", url |-> "", page |-> <<>>,
     k |-> 1, logo_candidates |-> <<>>, candidates |-> <<>>,
     cand |-> candidate, scores |-> <<>>]

StartedCalls ==
    {RankCall(u, pg) : u \in Urls, pg \in CallPages}
    \cup {ScoreTwice(candidate) : candidate \in FullSweep}

CallsInit ==
    /\ pc = "event_loop"
    /\ open_pages = 0
    /\ url = ""
    /\ page = <<>>
    /\ logo_candidates = <<>>
    /\ candidates = <<>>
    /\ cand = NoCandidate
    /\ score = NoScore
    /\ result = NoResult
    /\ idx = 0
    /\ downloads = <<>>
    /\ validations = <<>>
    /\ WebsiteIdle
    /\ log = <<>>
    /\ rows = <<>>
    /\ results = <<>>
    /\ row_idx = 0
    /\ saved = <<>>
    /\ self = LogoFinderFields
    /\ OtherClassesIdle
    /\ calls \in [Callers -> StartedCalls]

\* what a step of a call leaves alone: the fields of the LogoFinder and
\* everything outside the calls
calls_frame ==
    UNCHANGED <<pc, url, page, logo_candidates, candidates, cand, score, result,
                idx, downloads, validations, website_vars, batch_vars, self, other_vars, img_idx>>

\* page = await browser.new_page(): the page is open from here on, through
\* the awaits of set_viewport_size and goto
CallNewPage(c) ==
    /\ calls[c].fn = "find_logo_candidates"
    /\ calls[c].pc = "start"
    /\ calls' = [calls EXCEPT ![c].pc = "goto"]
    /\ open_pages' = open_pages + 1
    /\ calls_frame

\* await page.goto(url, ...) and await page.wait_for_timeout(2000) on a page
\* that loads
CallGoto(c) ==
    /\ calls[c].fn = "find_logo_candidates"
    /\ calls[c].pc = "goto"
    /\ calls' = [calls EXCEPT ![c].pc = "discover"]
    /\ UNCHANGED open_pages
    /\ calls_frame

\* page.goto raises: the except branch returns [] and page.close() is not
\* reached
CallGotoFails(c) ==
    /\ calls[c].fn = "find_logo_candidates"
    /\ calls[c].pc = "goto"
    /\ calls' = [calls EXCEPT ![c].pc = "failed", ![c].candidates = <<>>]
    /\ UNCHANGED open_pages
    /\ calls_frame

\* mutant: logo_candidates is one list that every call appends to
CallDiscoverImage_Shared(c) ==
    /\ calls[c].fn = "find_logo_candidates"
    /\ calls[c].pc = "discover"
    /\ calls[c].k <= Len(calls[c].page)
    /\ calls' = [d \in Callers |->
                   [calls[d] EXCEPT
                      !.logo_candidates =
                          @ \o DiscoverImage(EnsureProtocol(calls[c].url),
                                             calls[c].page[calls[c].k]),
                      !.k = IF d = c THEN @ + 1 ELSE @]]
    /\ UNCHANGED open_pages
    /\ calls_frame

\* one image of the selector loops: its awaited get_attribute and
\* bounding_box calls and the append to the local logo_candidates
CallDiscoverImage(c) ==
    /\ calls[c].fn = "find_logo_candidates"
    /\ calls[c].pc = "discover"
    /\ calls[c].k <= Len(calls[c].page)
    /\ calls' = [calls EXCEPT
                   ![c].logo_candidates =
                       @ \o DiscoverImage(EnsureProtocol(calls[c].url),
                                          calls[c].page[calls[c].k]),
                   ![c].k = @ + 1]
    /\ UNCHANGED open_pages
    /\ calls_frame

\* behind the last image: remove the duplicates and sort, without an await
CallRank(c) ==
    /\ calls[c].fn = "find_logo_candidates"
    /\ calls[c].pc = "discover"
    /\ calls[c].k > Len(calls[c].page)
    /\ calls' = [calls EXCEPT
                   ![c].candidates =
                       SortByScore(RemoveDuplicates(calls[c].logo_candidates,
                                                    1, {}, <<>>)),
                   ![c].pc = "close"]
    /\ UNCHANGED open_pages
    /\ calls_frame

\* await page.close(); return unique_candidates[:10]
CallReturn(c) ==
    /\ calls[c].fn = "find_logo_candidates"
    /\ calls[c].pc = "close"
    /\ calls' = [calls EXCEPT ![c].candidates = Top(@), ![c].pc = "returned"]
    /\ open_pages' = open_pages - 1
    /\ calls_frame

\* self._score_logo_candidate(cand), the first and the second time
CallScore(c) ==
    /\ calls[c].fn = "_score_logo_candidate"
    /\ Len(calls[c].scores) < 2
    /\ calls' = [calls EXCEPT
                   ![c].scores = Append(@, _score_logo_candidate(calls[c].cand)),
                   ![c].pc = IF Len(calls[c].scores) = 1 THEN "returned"
                             ELSE "scored_once"]
    /\ UNCHANGED open_pages
    /\ calls_frame

CallsNext ==
    \E c \in Callers :
        \/ CallNewPage(c)
        \/ CallGoto(c)
        \/ CallGotoFails(c)
        \/ CallDiscoverImage(c)
        \/ CallRank(c)
        \/ CallReturn(c)
        \/ CallScore(c)

SpecCalls == CallsInit /\ [][CallsNext]_vars

----------------------------------------------------------------------------
(* Specification SpecDelays: a call of process_website, or one of the       *)
(* batch loops, with the log of its external calls and delays               *)

SpecDelays == (Init \/ BatchInit) /\ [][Next \/ BatchNext]_vars

----------------------------------------------------------------------------
(* Specification SpecFilter: one call of                                    *)
(* LeadListFilter.filter_restaurants_batch, one batch per step              *)

MaxRestaurants == 3
BatchSize == 2

\* the batch_size argument
batch_size == BatchSize

\* the g-th row of the input file
Restaurant(g) == [name |-> "R" \o ToStr(g)]

\* an element of a JSON list: an integer, or a string, null or list
Idx(n) == [int |-> TRUE, value |-> n]
NotANumber == [int |-> FALSE, value |-> 0]

\* the value under a key of the answer: a list, or a number or null
List(items) == [list |-> TRUE, items |-> items]
NotAList == [list |-> FALSE, items |-> <<>>]

\* the numbers of a set in ascending order
Ascending(S) ==
    [k \in 1..Cardinality(S) |->
        Idx(CHOOSE x \in S : Cardinality({y \in S : y < x}) = k - 1)]

\* an answer that json.loads turns into a dict with both keys; fence is the
\* markdown code block around it
Answer(remove, keep, fence) ==
    [kind |-> "json", remove |-> remove, keep |-> keep, fence |-> fence]

\* the create call raises, the text is not JSON, the JSON is not a dict or
\* lacks a key
FailedAnswers ==
    {[kind |-> kd, remove |-> NotAList, keep |-> NotAList, fence |-> "none"] :
        kd \in {"api_error", "not_json", "not_dict", "no_remove_key", "no_keep_key"}}

\* every split of the batch into removed, kept, both and unmentioned
RegularAnswers(n) ==
    {Answer(List(Ascending(R)), List(Ascending(K)), "none") :
        R \in SUBSET (1..n), K \in SUBSET (1..n)}

\* repeated indices, indices outside the batch, elements that are not
\* numbers, values that are not lists, lists out of order, code blocks
IrregularAnswers(n) ==
    {Answer(List(<<>>), List(<<Idx(1), Idx(1)>>), "none"),
     Answer(List(<<Idx(1)>>), List(<<Idx(n), Idx(1), Idx(n)>>), "none"),
     Answer(List(<<>>), List(<<Idx(0)>>), "none"),
     Answer(List(<<Idx(n + 1)>>), List(<<Idx(n + 1)>>), "none"),
     Answer(List(<<Idx(0 - 1)>>), List(<<>>), "none"),
     Answer(List(<<>>), List(<<Idx(1), NotANumber>>), "none"),
     Answer(List(<<Idx(n)>>), List(<<NotANumber, Idx(1)>>), "none"),
     Answer(List(<<NotANumber>>), List(<<Idx(1)>>), "none"),
     Answer(List(<<Idx(1), NotANumber>>), List(<<>>), "none"),
     Answer(NotAList, List(<<Idx(1)>>), "none"),
     Answer(List(<<Idx(1)>>), NotAList, "none"),
     Answer(List(<<Idx(n), Idx(1)>>), List(<<>>), "json"),
     Answer(List(<<Idx(1)>>), List(<<Idx(n)>>), "plain")}

AiAnswers(n) == FailedAnswers \cup RegularAnswers(n) \cup IrregularAnswers(n)

RECURSIVE KeepLoop(_, _, _, _)
\* `for idx in keep_indices`, from element k on: the restaurants appended,
\* and whether `1 <= idx` raised on an element that is not a number
KeepLoop(batch, keep_indices, k, appended) ==
    IF k > Len(keep_indices) THEN [raised |-> FALSE, appended |-> appended]
    ELSE IF ~keep_indices[k].int THEN [raised |-> TRUE, appended |-> appended]
    ELSE IF 1 <= keep_indices[k].value /\ keep_indices[k].value <= Len(batch)
    THEN KeepLoop(batch, keep_indices, k + 1,
                  Append(appended, batch[keep_indices[k].value]))
    ELSE KeepLoop(batch, keep_indices, k + 1, appended)

\* set(remove_indices + keep_indices), the numbers
AllMentioned(remove_indices, keep_indices) ==
    {remove_indices[k].value : k \in DOMAIN remove_indices}
    \cup {keep_indices[k].value : k \in DOMAIN keep_indices}

RECURSIVE NotMentioned(_, _, _)
\* `for idx in range(1, len(batch) + 1): if idx not in all_mentioned`
NotMentioned(batch, all_mentioned, k) ==
    IF k > Len(batch) THEN <<>>
    ELSE (IF k \notin all_mentioned THEN <<batch[k]>> ELSE <<>>)
         \o NotMentioned(batch, all_mentioned, k + 1)

\* mutant: a restaurant the answer does not mention is dropped
FilterBatch_OnlyKept(batch, response) ==
    IF response.kind # "json" THEN batch
    ELSE IF ~response.remove.list \/ ~response.keep.list THEN batch
    ELSE IF \E k \in DOMAIN response.remove.items : ~response.remove.items[k].int
    THEN batch
    ELSE LET kept == KeepLoop(batch, response.keep.items, 1, <<>>)
         IN  IF kept.raised THEN kept.appended \o batch ELSE kept.appended

\* the body of the batch loop: what one batch adds to filtered_restaurants
FilterBatch(batch, response) ==
    IF response.kind # "json" THEN batch
    ELSE IF ~response.remove.list \/ ~response.keep.list THEN batch
    ELSE IF \E k \in DOMAIN response.remove.items : ~response.remove.items[k].int
    THEN batch
    ELSE LET kept == KeepLoop(batch, response.keep.items, 1, <<>>)
         IN  IF kept.raised THEN kept.appended \o batch
             ELSE kept.appended
                  \o NotMentioned(batch,
                                  AllMentioned(response.remove.items,
                                               response.keep.items), 1)

\* batch = restaurants_data[i:i + batch_size] of the b-th batch
Batch(b) ==
    SubSeq(restaurants_data, (b - 1) * batch_size + 1,
           IF b * batch_size < Len(restaurants_data) THEN b * batch_size
           ELSE Len(restaurants_data))

FilterInit ==
    /\ pc = "filter_restaurants_batch"
    /\ restaurants_data \in {[g \in 1..n |-> Restaurant(g)] : n \in 0..MaxRestaurants}
    /\ filtered_restaurants = <<>>
    /\ ai_responses = <<>>
    /\ open_pages = 0
    /\ url = ""
    /\ page = <<>>
    /\ logo_candidates = <<>>
    /\ candidates = <<>>
    /\ cand = NoCandidate
    /\ score = NoScore
    /\ result = NoResult
    /\ idx = 0
    /\ downloads = <<>>
    /\ validations = <<>>
    /\ WebsiteIdle
    /\ log = <<>>
    /\ rows = <<>>
    /\ results = <<>>
    /\ row_idx = 0
    /\ saved = <<>>
    /\ self = LogoFinderFields
    /\ calls = <<>>
    /\ ContactIdle
    /\ PlacesIdle
    /\ QualifyIdle
    /\ img_idx = 0

\* what filter_restaurants_batch leaves alone
filter_frame ==
    <<open_pages, url, page, logo_candidates, candidates, cand, score, result, idx,
      downloads, validations, website_vars, batch_vars, self, calls,
      restaurants_data, contact_vars, places_vars, qualify_vars, img_idx>>

\* one iteration of `for i in range(0, len(restaurants_data), batch_size)`
FilterBatchStep ==
    /\ pc = "filter_restaurants_batch"
    /\ Len(ai_responses) * batch_size < Len(restaurants_data)
    /\ LET batch == Batch(Len(ai_responses) + 1)
       IN  \E response \in AiAnswers(Len(batch)) :
              /\ filtered_restaurants' =
                     filtered_restaurants \o FilterBatch(batch, response)
              /\ ai_responses' = Append(ai_responses, response)
    /\ pc' = pc
    /\ UNCHANGED filter_frame

\* return filtered_restaurants
FilterReturn ==
    /\ pc = "filter_restaurants_batch"
    /\ Len(ai_responses) * batch_size >= Len(restaurants_data)
    /\ pc' = "filter_returned"
    /\ UNCHANGED <<filtered_restaurants, ai_responses>>
    /\ UNCHANGED filter_frame

FilterNext == FilterBatchStep \/ FilterReturn

SpecFilter == FilterInit /\ [][FilterNext]_vars

----------------------------------------------------------------------------
(* Specification SpecContact: one call of                                   *)
(* EmailFinderAgent.extract_contact_from_text                               *)

MaxWords == 3

\* the words of the agent's text, separated by blanks; a blank is in none of
\* the patterns' classes and is no word character, so a match lies within
\* one word and \b sees a word's ends as it sees the ends of the text
Words ==
    {"info@cafe.io", "chef@cafe.io", "noreply@cafe.io", "No-Reply@cafe.io",
     "sadmin@cafe.io", "webmaster@cafe.io", "call", "us@", "a@b",
     "info@cafe.io.", "a@b.c1", "a@b@c.io", "a@b.ioo1", "-x@y.zz|k",
     "m@n.io,o@p.uk"}

\* [A-Za-z]
Letters == DOMAIN LowerMap \cup {LowerMap[c] : c \in DOMAIN LowerMap}

\* \w on ASCII text
WordChars == Letters \cup DigitChars \cup {"_"}

\* [A-Za-z0-9._%+-]
LocalChars == Letters \cup DigitChars \cup {".", "_", "%", "+", "-"}

\* [A-Za-z0-9.-]
DomainChars == Letters \cup DigitChars \cup {".", "-"}

\* the two patterns of email_patterns: the first between two \b and with the
\* class [A-Z|a-z], which holds "|", the second without \b and with [a-zA-Z]
email_patterns ==
    <<[boundaries |-> TRUE, tld |-> Letters \cup {"|"}],
      [boundaries |-> FALSE, tld |-> Letters]>>

\* the character at position i of the word, "" outside of it
CharAt(word, i) == IF i \in 1..Len(word) THEN SubSeq(word, i, i) ELSE ""

\* \b before position i: a word character on exactly one side
Boundary(word, i) ==
    (CharAt(word, i - 1) \in WordChars) # (CharAt(word, i) \in WordChars)

\* every way the pattern matches within the word: <<s, a, t, e>> for a match
\* from position s to position e with its "@" at a and its "\." at t
Matches(pattern, word) ==
    UNION {UNION {UNION {
        {<<s, a, t, e>> :
            e \in {x \in (t + 2)..Len(word) :
                      /\ \A i \in (t + 1)..x : SubSeq(word, i, i) \in pattern.tld
                      /\ pattern.boundaries => Boundary(word, x + 1)}} :
            t \in {x \in (a + 2)..Len(word) :
                      /\ SubSeq(word, x, x) = "."
                      /\ \A i \in (a + 1)..(x - 1) : SubSeq(word, i, i) \in DomainChars}} :
            s \in {x \in 1..(a - 1) :
                      /\ \A i \in x..(a - 1) : SubSeq(word, i, i) \in LocalChars
                      /\ pattern.boundaries => Boundary(word, x)}} :
            a \in {x \in 1..Len(word) : SubSeq(word, x, x) = "@"}}

\* the match the search from position p finds among the matches: the
\* leftmost start, and from it, the quantifiers being greedy, the longest
\* domain and then the longest end
FirstMatch(found, p) ==
    CHOOSE c \in found :
        /\ c[1] >= p
        /\ \A d \in found :
              d[1] >= p =>
                  \/ c[1] < d[1]
                  \/ c[1] = d[1] /\ c[3] > d[3]
                  \/ c[1] = d[1] /\ c[3] = d[3] /\ c[4] >= d[4]

RECURSIVE WordMatches(_, _, _)
\* the matches of the search from position p on, each search going on behind
\* the match before it
WordMatches(found, word, p) ==
    IF \A c \in found : c[1] < p THEN <<>>
    ELSE <<SubSeq(word, FirstMatch(found, p)[1], FirstMatch(found, p)[4])>>
             \o WordMatches(found, word, FirstMatch(found, p)[4] + 1)

RECURSIVE FindAll(_, _)
\* re.findall(pattern, result_text): the matched parts of the text in order
FindAll(pattern, text) ==
    IF text = <<>> THEN <<>>
    ELSE WordMatches(Matches(pattern, Head(text)), Head(text), 1)
             \o FindAll(pattern, Tail(text))

\* for pattern in email_patterns: emails.extend(re.findall(pattern, result_text))
Emails(text) ==
    FindAll(email_patterns[1], text) \o FindAll(email_patterns[2], text)

excluded_patterns == <<"noreply", "no-reply", "admin@", "webmaster@">>

\* any(excluded in email.lower() for excluded in excluded_patterns)
IsExcluded(email) ==
    \E k \in DOMAIN excluded_patterns :
        Contains(excluded_patterns[k], Lower(email))

NotExcluded(email) == ~IsExcluded(email)

\* extract_contact_from_text(result_text), the email part
extract_contact_from_text(text) ==
    LET emails == Emails(text)
        contact_emails == SelectSeq(emails, NotExcluded)
    IN  IF emails = <<>> THEN NoContactInfo
        ELSE IF contact_emails # <<>>
        THEN IF Len(contact_emails) > 1
             THEN [keys |-> {"email", "additional_emails"},
                   email |-> contact_emails[1],
                   additional_emails |-> SubSeq(contact_emails, 2, Len(contact_emails))]
             ELSE [keys |-> {"email"}, email |-> contact_emails[1],
                   additional_emails |-> <<>>]
        ELSE [keys |-> {"email"}, email |-> emails[1], additional_emails |-> <<>>]

ContactInit ==
    /\ pc = "extract_contact_from_text"
    /\ result_text \in UNION {[1..n -> Words] : n \in 0..MaxWords}
    /\ contact_info = NoContactInfo
    /\ open_pages = 0
    /\ url = ""
    /\ page = <<>>
    /\ logo_candidates = <<>>
    /\ candidates = <<>>
    /\ cand = NoCandidate
    /\ score = NoScore
    /\ result = NoResult
    /\ idx = 0
    /\ downloads = <<>>
    /\ validations = <<>>
    /\ WebsiteIdle
    /\ log = <<>>
    /\ rows = <<>>
    /\ results = <<>>
    /\ row_idx = 0
    /\ saved = <<>>
    /\ self = LogoFinderFields
    /\ calls = <<>>
    /\ FilterIdle
    /\ PlacesIdle
    /\ QualifyIdle
    /\ img_idx = 0

\* contact_info = self.extract_contact_from_text(result_text)
ExtractContact ==
    /\ pc = "extract_contact_from_text"
    /\ contact_info' = extract_contact_from_text(result_text)
    /\ pc' = "extract_returned"
    /\ UNCHANGED <<open_pages, url, page, logo_candidates, candidates, cand, score,
                   result, idx, downloads, validations, website_vars, batch_vars,
                   self, calls, filter_vars, result_text, places_vars, qualify_vars, img_idx>>

ContactNext == ExtractContact

SpecContact == ContactInit /\ [][ContactNext]_vars

----------------------------------------------------------------------------
(* Specification SpecPlaces: one call of PlacesFetcher.search_places, one   *)
(* request per step                                                         *)

MaxPages == 2

\* food_types = ['restaurant', 'meal_takeaway',]
food_types == <<"restaurant", "meal_takeaway">>

\* a place of a results list; place_id "" stands for a place without one
Place(place_id, name) == [place_id |-> place_id, name |-> name]

\* the results lists a page of places_nearby can hold
PageResults ==
    { <<>>,
      <<Place("p1", "Luigi")>>,
      <<Place("p2", "Wok"), Place("p1", "Luigi Takeaway")>>,
      <<Place("", "Stall"), Place("p2", "Wok")>> }

\* the searches of a call: the food types, or the one type given
Searches == IF place_type = NoPlaceType THEN food_types ELSE <<place_type>>

\* the pages the search at hand has fetched
PagesOfSearch ==
    Cardinality({k \in DOMAIN requests :
                    /\ requests[k].op = "places_nearby"
                    /\ requests[k].outcome = "ok"
                    /\ requests[k].type = Searches[food_type]})

RECURSIVE UniquePlaces_KeepLast(_, _, _)
\* mutant: a later place of a known place_id replaces the one kept
UniquePlaces_KeepLast(all, k, unique_places) ==
    IF k > Len(all) THEN unique_places
    ELSE IF all[k].place_id = "" THEN UniquePlaces_KeepLast(all, k + 1, unique_places)
    ELSE IF \E j \in DOMAIN unique_places : unique_places[j].place_id = all[k].place_id
    THEN UniquePlaces_KeepLast(all, k + 1,
             [j \in DOMAIN unique_places |->
                 IF unique_places[j].place_id = all[k].place_id
                 THEN all[k] ELSE unique_places[j]])
    ELSE UniquePlaces_KeepLast(all, k + 1, Append(unique_places, all[k]))

RECURSIVE UniquePlaces(_, _, _)
\* Remove duplicates based on place_id: the loop from place k on, and
\* list(unique_places.values())
UniquePlaces(all, k, unique_places) ==
    IF k > Len(all) THEN unique_places
    ELSE IF /\ all[k].place_id # ""
            /\ \A j \in DOMAIN unique_places :
                  unique_places[j].place_id # all[k].place_id
    THEN UniquePlaces(all, k + 1, Append(unique_places, all[k]))
    ELSE UniquePlaces(all, k + 1, unique_places)

\* mutant: the except branch returns what was fetched so far
OnError_Partial(fetched) == fetched

\* except Exception: return []
OnError(fetched) == <<>>

PlacesInit ==
    /\ pc = "search_places"
    /\ place_type \in {NoPlaceType, "cafe"}
    /\ requests = <<>>
    /\ food_type = 0
    /\ places = <<>>
    /\ all_places = <<>>
    /\ found_places = <<>>
    /\ open_pages = 0
    /\ url = ""
    /\ page = <<>>
    /\ logo_candidates = <<>>
    /\ candidates = <<>>
    /\ cand = NoCandidate
    /\ score = NoScore
    /\ result = NoResult
    /\ idx = 0
    /\ downloads = <<>>
    /\ validations = <<>>
    /\ WebsiteIdle
    /\ log = <<>>
    /\ rows = <<>>
    /\ results = <<>>
    /\ row_idx = 0
    /\ saved = <<>>
    /\ self = LogoFinderFields
    /\ calls = <<>>
    /\ FilterIdle
    /\ ContactIdle
    /\ QualifyIdle
    /\ img_idx = 0

\* what search_places leaves alone
places_frame ==
    <<open_pages, url, page, logo_candidates, candidates, cand, score, result, idx,
      downloads, validations, website_vars, batch_vars, self, calls, filter_vars,
      contact_vars, place_type, qualify_vars, img_idx>>

\* geocode_result = self.gmaps.geocode(town_name): the town is found, or the
\* result is empty (ValueError), lacks 'geometry' (KeyError), or the request
\* raises
Geocode ==
    /\ pc = "search_places"
    /\ \E outcome \in {"found", "empty", "malformed", "raised"} :
          /\ requests' = Append(requests, [op |-> "geocode", outcome |-> outcome])
          /\ IF outcome = "found"
             THEN /\ pc' = "places_nearby"
                  /\ food_type' = 1
                  /\ found_places' = found_places
             ELSE /\ pc' = "search_returned"
                  /\ food_type' = food_type
                  /\ found_places' = OnError(all_places \o places)
    /\ UNCHANGED <<places, all_places>>
    /\ UNCHANGED places_frame

\* a places_nearby request that answers: the first page of a search
\* (pc = "places_nearby") or the page of a next_page_token (pc = "next_page");
\* behind the last page of a search, all_places.extend(places) and the next
\* food type
PlacesNearby ==
    /\ pc \in {"places_nearby", "next_page"}
    /\ \E page_results \in PageResults, more \in BOOLEAN :
          /\ more => PagesOfSearch + 1 < MaxPages
          /\ requests' = Append(requests,
                                [op |-> "places_nearby", outcome |-> "ok",
                                 type |-> Searches[food_type],
                                 page_token |-> (pc = "next_page"),
                                 results |-> page_results,
                                 next_page_token |-> more])
          /\ places' = (IF pc = "next_page" THEN places ELSE <<>>) \o page_results
          /\ IF more
             THEN /\ pc' = "next_page"
                  /\ UNCHANGED <<food_type, all_places>>
             ELSE /\ all_places' = IF place_type = NoPlaceType
                                   THEN all_places \o places' ELSE all_places
                  /\ IF food_type < Len(Searches)
                     THEN /\ food_type' = food_type + 1
                          /\ pc' = "places_nearby"
                     ELSE /\ food_type' = food_type
                          /\ pc' = "searched"
    /\ UNCHANGED found_places
    /\ UNCHANGED places_frame

\* a places_nearby request that raises: except Exception, return []
PlacesNearbyRaises ==
    /\ pc \in {"places_nearby", "next_page"}
    /\ requests' = Append(requests,
                          [op |-> "places_nearby", outcome |-> "raised",
                           type |-> Searches[food_type],
                           page_token |-> (pc = "next_page"),
                           results |-> <<>>, next_page_token |-> FALSE])
    /\ found_places' = OnError(all_places \o places)
    /\ pc' = "search_returned"
    /\ UNCHANGED <<food_type, places, all_places>>
    /\ UNCHANGED places_frame

\* behind the searches: without place_type the duplicates are removed;
\* return places
ReturnPlaces ==
    /\ pc = "searched"
    /\ places' = IF place_type = NoPlaceType
                 THEN UniquePlaces(all_places, 1, <<>>) ELSE places
    /\ found_places' = places'
    /\ pc' = "search_returned"
    /\ UNCHANGED <<requests, food_type, all_places>>
    /\ UNCHANGED places_frame

PlacesNext == Geocode \/ PlacesNearby \/ PlacesNearbyRaises \/ ReturnPlaces

SpecPlaces == PlacesInit /\ [][PlacesNext]_vars

----------------------------------------------------------------------------
(* Specification SpecSave: one call of                                      *)
(* EmailFinderAgent.process_all_restaurants statement by statement, with    *)
(* the KeyboardInterrupt its loop catches                                   *)

\* the files of save_results before the first save
NoFiles == [csv |-> <<>>, json |-> <<>>]

\* the statements inside the `try` of the loop, and inside save_results
SaveStatements ==
    {"process_all_restaurants.find", "process_all_restaurants.append",
     "save_results.to_csv", "save_results.open", "save_results.json_dump",
     "process_all_restaurants.sleep"}

SaveInit ==
    /\ pc = "process_all_restaurants.find"
    /\ rows \in {RowsOf(o) : o \in UNION {[1..n -> RestaurantOutcomes] : n \in 0..MaxRows}}
    /\ results = <<>>
    /\ row_idx = 0
    /\ saved = NoFiles
    /\ result = NoResult
    /\ log = <<>>
    /\ open_pages = 0
    /\ url = ""
    /\ page = <<>>
    /\ logo_candidates = <<>>
    /\ candidates = <<>>
    /\ cand = NoCandidate
    /\ score = NoScore
    /\ idx = 0
    /\ downloads = <<>>
    /\ validations = <<>>
    /\ WebsiteIdle
    /\ self = LogoFinderFields
    /\ OtherClassesIdle
    /\ calls = <<>>

\* what process_all_restaurants leaves alone
save_frame ==
    <<open_pages, url, page, logo_candidates, candidates, cand, score, idx, downloads,
      validations, last_response, last_image_bytes, last_validation, rows, self, calls,
      other_vars, img_idx>>

\* result = await self.find_contact_info_for_restaurant(restaurant); an
\* exception goes to `except Exception: continue`
FindContactInfo ==
    /\ pc = "process_all_restaurants.find"
    /\ row_idx < Len(rows)
    /\ LET res == find_contact_info_for_restaurant(rows[row_idx + 1])
       IN  IF res = Raised
           THEN /\ row_idx' = row_idx + 1
                /\ UNCHANGED <<pc, result>>
           ELSE /\ result' = res
                /\ pc' = "process_all_restaurants.append"
                /\ UNCHANGED row_idx
    /\ UNCHANGED <<results, saved, log>>
    /\ UNCHANGED save_frame

\* self.results.append(result)
AppendResult ==
    /\ pc = "process_all_restaurants.append"
    /\ results' = Append(results, result)
    /\ pc' = "save_results.to_csv"
    /\ UNCHANGED <<result, row_idx, saved, log>>
    /\ UNCHANGED save_frame

\* df = pd.DataFrame(self.results); df.to_csv(self.output_file_path, index=False)
ToCsv ==
    /\ pc = "save_results.to_csv"
    /\ saved' = [saved EXCEPT !.csv = results]
    /\ pc' = "save_results.open"
    /\ UNCHANGED <<result, results, row_idx, log>>
    /\ UNCHANGED save_frame

\* with open(json_file, 'w') as f: the backup is emptied
OpenBackup ==
    /\ pc = "save_results.open"
    /\ saved' = [saved EXCEPT !.json = <<>>]
    /\ pc' = "save_results.json_dump"
    /\ UNCHANGED <<result, results, row_idx, log>>
    /\ UNCHANGED save_frame

\* json.dump(self.results, f, indent=2)
JsonDump ==
    /\ pc = "save_results.json_dump"
    /\ saved' = [saved EXCEPT !.json = results]
    /\ pc' = "process_all_restaurants.sleep"
    /\ UNCHANGED <<result, results, row_idx, log>>
    /\ UNCHANGED save_frame

\* await asyncio.sleep(2), then the next restaurant
SleepAfterSave ==
    /\ pc = "process_all_restaurants.sleep"
    /\ log' = Append(log, [op |-> "sleep", seconds |-> restaurant_delay])
    /\ row_idx' = row_idx + 1
    /\ pc' = "process_all_restaurants.find"
    /\ UNCHANGED <<result, results, saved>>
    /\ UNCHANGED save_frame

\* KeyboardInterrupt at a statement inside the `try`: `except
\* KeyboardInterrupt: break`, the summary is printed, nothing is saved again
KeyboardInterrupt ==
    /\ pc \in SaveStatements
    /\ row_idx < Len(rows)
    /\ pc' = "process_all_restaurants.interrupted"
    /\ UNCHANGED <<result, results, row_idx, saved, log>>
    /\ UNCHANGED save_frame

\* behind the loop (at once when there is no restaurant)
SaveReturn ==
    /\ pc = "process_all_restaurants.find"
    /\ row_idx = Len(rows)
    /\ pc' = "process_all_restaurants.returned"
    /\ UNCHANGED <<result, results, row_idx, saved, log>>
    /\ UNCHANGED save_frame

SaveNext ==
    \/ FindContactInfo
    \/ AppendResult
    \/ ToCsv
    \/ OpenBackup
    \/ JsonDump
    \/ SleepAfterSave
    \/ KeyboardInterrupt
    \/ SaveReturn

SpecSave == SaveInit /\ [][SaveNext]_vars

----------------------------------------------------------------------------
(* Specification SpecQualify: one call of LeadQualifier.process_restaurants  *)
(* or of LeadQualifier.process_urls, await by await                         *)

\* what a website does to take_screenshot: the screenshot is taken (and
\* saved for debugging, or the debug file cannot be written), or
\* browser.new_page(), page.goto() or page.screenshot() raises
ScreenshotOutcomes ==
    {"png", "debug_save_fails", "new_page_fails", "goto_fails", "screenshot_fails"}

\* the bytes page.screenshot() returns
Png == [none |-> FALSE, length |-> 2048]

\* `return None`
NoScreenshot == [none |-> TRUE, length |-> 0]

\* Python's truth value of Optional[bytes]
Truthy(screenshot) == ~screenshot.none /\ screenshot.length > 0

\* take_screenshot(url, browser, save_debug): the failure of the debug save
\* is caught inside, every other exception gives None
take_screenshot(outcome) ==
    IF outcome \in {"png", "debug_save_fails"} THEN Png ELSE NoScreenshot

\* the pages take_screenshot leaves open: page.close() is not reached when
\* goto or screenshot raises
PagesLeftOpen(outcome) ==
    IF outcome \in {"goto_fails", "screenshot_fails"} THEN 1 ELSE 0

\* what self.client.chat.completions.create gives: it raises, the message
\* has no tool_calls, or its first tool call names a function and carries
\* arguments (JSON text)
Response(kind, name, arguments) == [kind |-> kind, name |-> name, arguments |-> arguments]

\* the arguments are a full assessment, an object without judgment and
\* confidence, a JSON list, or no JSON (cut off at max_tokens)
Responses ==
    {Response("raises", "", ""), Response("no_tool_calls", "", ""),
     Response("tool_call", "describe_website", "full")}
    \cup {Response("tool_call", "analyze_website_design", a) :
             a \in {"full", "partial", "list", "invalid"}}

\* a dict, and a value without .get
AnalysisDict(items) == [dict |-> TRUE, items |-> items]
NotADict == [dict |-> FALSE, items |-> <<>>]

\* json.loads(function_call.function.arguments)
json_loads(arguments) ==
    IF arguments = "full"
    THEN AnalysisDict([judgment |-> "Outdated", reason |-> "table layout",
                       confidence |-> 85])
    ELSE IF arguments = "partial"
    THEN AnalysisDict([reason |-> "hard to say"])
    ELSE IF arguments = "list" THEN NotADict
    ELSE Raised

\* the dict of a failed analysis
UnclearAnalysis(reason) ==
    AnalysisDict([judgment |-> "Unclear", reason |-> reason, confidence |-> 0])

\* analyze_website_design(screenshot_bytes): what the function call of the
\* response says; every exception is caught
analyze_website_design(response) ==
    IF response.kind = "raises"
    THEN UnclearAnalysis("Analysis error: timeout")
    ELSE IF response.kind = "tool_call"
    THEN IF response.name = "analyze_website_design"
         THEN IF json_loads(response.arguments) = Raised
              THEN UnclearAnalysis("Analysis error: Unterminated string starting at: line 1 column 14 (char 13)")
              ELSE json_loads(response.arguments)
         ELSE UnclearAnalysis("Unexpected function response")
    ELSE UnclearAnalysis("No function call received")

\* dict.get(key, default)
Get(items, key, default) == IF key \in DOMAIN items THEN items[key] ELSE default

\* the result dict process_url starts with (without its timestamp)
StartedResult(u) ==
    [url |-> u, judgment |-> "Unclear", reason |-> "Processing failed",
     confidence |-> 0, screenshot_taken |-> FALSE]

\* mutant: process_url without its `except Exception`
process_url_NoExcept(u, site) ==
    IF Truthy(take_screenshot(site.screenshot))
    THEN LET analysis == analyze_website_design(site.response)
         IN  IF ~analysis.dict THEN Raised
             ELSE [StartedResult(u) EXCEPT
                      !.screenshot_taken = TRUE,
                      !.judgment = Get(analysis.items, "judgment", "Unclear"),
                      !.reason = Get(analysis.items, "reason", "Analysis failed"),
                      !.confidence = Get(analysis.items, "confidence", 0)]
    ELSE [StartedResult(u) EXCEPT !.reason = "Failed to take screenshot"]

\* process_url(url, browser, save_debug): screenshot, analysis, result.update;
\* analysis.get on a value that is no dict raises inside the try
process_url(u, site) ==
    IF Truthy(take_screenshot(site.screenshot))
    THEN LET analysis == analyze_website_design(site.response)
             taken == [StartedResult(u) EXCEPT !.screenshot_taken = TRUE]
         IN  IF ~analysis.dict
             THEN [taken EXCEPT
                      !.reason = "Processing error: 'list' object has no attribute 'get'"]
             ELSE [taken EXCEPT
                      !.judgment = Get(analysis.items, "judgment", "Unclear"),
                      !.reason = Get(analysis.items, "reason", "Analysis failed"),
                      !.confidence = Get(analysis.items, "confidence", 0)]
    ELSE [StartedResult(u) EXCEPT !.reason = "Failed to take screenshot"]

\* result.update({'restaurant_name': name, ...})
WithRestaurant(res, restaurant) ==
    [url |-> res.url, judgment |-> res.judgment, reason |-> res.reason,
     confidence |-> res.confidence, screenshot_taken |-> res.screenshot_taken,
     restaurant_name |-> restaurant.name]

\* the websites of the restaurants: every failure of the screenshot, and
\* every response to a screenshot that was taken
Sites ==
    {[screenshot |-> s, response |-> Response("no_tool_calls", "", "")] :
        s \in ScreenshotOutcomes \ {"png"}}
    \cup {[screenshot |-> "png", response |-> r] : r \in Responses}

\* restaurant k of the list load_restaurants_with_websites gives
Restaurant_k(k, site) ==
    [name |-> "Cafe " \o ToStr(k), website |-> "s" \o ToStr(k) \o ".io", site |-> site]

MaxQualify == 2

QualifyFunctions == {"process_restaurants", "process_urls"}

\* await asyncio.sleep(2) between two restaurants, asyncio.sleep(1) between
\* two urls
qualify_delay(fn) == IF fn = "process_restaurants" THEN 2 ELSE 1

\* the function the call at hand belongs to
QualifyFunction ==
    IF StartsWith(pc, "process_restaurants") THEN "process_restaurants" ELSE "process_urls"

\* the output files a caller passes: none (the default) or a file
OutputFiles == {NoOutputFile, "out.csv"}

QualifyInit ==
    /\ pc \in QualifyFunctions
    /\ output_file \in OutputFiles
    /\ rows \in {[k \in DOMAIN sites |-> Restaurant_k(k, sites[k])] :
                    sites \in UNION {[1..n -> Sites] : n \in 0..MaxQualify}}
    /\ results = <<>>
    /\ row_idx = 0
    /\ saved = <<>>
    /\ log = <<>>
    /\ open_pages = 0
    /\ url = ""
    /\ page = <<>>
    /\ logo_candidates = <<>>
    /\ candidates = <<>>
    /\ cand = NoCandidate
    /\ score = NoScore
    /\ result = NoResult
    /\ idx = 0
    /\ downloads = <<>>
    /\ validations = <<>>
    /\ WebsiteIdle
    /\ self = LogoFinderFields
    /\ FilterIdle
    /\ ContactIdle
    /\ PlacesIdle
    /\ img_idx = 0
    /\ calls = <<>>

\* what the loops of LeadQualifier leave alone
qualify_frame ==
    <<url, page, logo_candidates, candidates, cand, score, result, idx, downloads,
      validations, last_response, last_image_bytes, last_validation, rows, self, calls,
      filter_vars, contact_vars, places_vars, output_file, img_idx>>

\* the head of one iteration of `for i, restaurant in enumerate(restaurants,
\* 1)` or of `for i, url in enumerate(urls, 1)`: process_url is called
ProcessUrlCall ==
    /\ pc \in QualifyFunctions
    /\ row_idx < Len(rows)
    /\ log' = Append(log, [op |-> "process_url", row |-> row_idx + 1])
    /\ pc' = pc \o ".new_page"
    /\ UNCHANGED <<results, row_idx, saved, open_pages>>
    /\ UNCHANGED qualify_frame

\* inside take_screenshot: page = await browser.new_page(), which opens the
\* page or raises
ProcessUrlNewPage ==
    /\ pc = QualifyFunction \o ".new_page"
    /\ IF rows[row_idx + 1].site.screenshot = "new_page_fails"
       THEN /\ pc' = QualifyFunction \o ".process_url"
            /\ UNCHANGED open_pages
       ELSE /\ pc' = QualifyFunction \o ".page_open"
            /\ open_pages' = open_pages + 1
    /\ UNCHANGED <<results, row_idx, saved, log>>
    /\ UNCHANGED qualify_frame

\* the end of take_screenshot: await page.close(), or the page is left open
\* when goto or screenshot raised
ProcessUrlClosePage ==
    /\ pc = QualifyFunction \o ".page_open"
    /\ open_pages' = (open_pages - 1) + PagesLeftOpen(rows[row_idx + 1].site.screenshot)
    /\ pc' = QualifyFunction \o ".process_url"
    /\ UNCHANGED <<results, row_idx, saved, log>>
    /\ UNCHANGED qualify_frame

\* process_url returns: result.update with the restaurant (process_restaurants
\* only), append, the delay in front of the next item; the loops have no
\* except, an exception would leave through `finally: await browser.close()`
ProcessRestaurantsStep ==
    /\ pc = QualifyFunction \o ".process_url"
    /\ LET restaurant == rows[row_idx + 1]
           res == process_url(restaurant.website, restaurant.site)
       IN  IF res = Raised
           THEN /\ pc' = QualifyFunction \o "_raised"
                /\ open_pages' = 0
                /\ UNCHANGED <<results, row_idx, log>>
           ELSE /\ results' = Append(results,
                                     IF QualifyFunction = "process_restaurants"
                                     THEN WithRestaurant(res, restaurant) ELSE res)
                /\ log' = IF row_idx + 1 < Len(rows)
                          THEN Append(log, [op |-> "sleep",
                                            seconds |-> qualify_delay(QualifyFunction)])
                          ELSE log
                /\ row_idx' = row_idx + 1
                /\ pc' = QualifyFunction
                /\ UNCHANGED open_pages
    /\ UNCHANGED saved
    /\ UNCHANGED qualify_frame

\* behind the loop: `finally: await browser.close()`, which closes the pages
\* left open
ProcessRestaurantsCloseBrowser ==
    /\ pc \in QualifyFunctions
    /\ row_idx = Len(rows)
    /\ open_pages' = 0
    /\ pc' = pc \o ".browser_closed"
    /\ UNCHANGED <<results, row_idx, saved, log>>
    /\ UNCHANGED qualify_frame

\* behind `async with async_playwright()`: `if output_file:`
\* save_enhanced_results or save_results, which catch a to_csv that raises and
\* then leave no file; return results
ProcessRestaurantsReturn ==
    /\ pc = QualifyFunction \o ".browser_closed"
    /\ \E written \in BOOLEAN :
          saved' = IF output_file # NoOutputFile /\ written THEN results ELSE saved
    /\ pc' = QualifyFunction \o "_returned"
    /\ UNCHANGED <<results, row_idx, log, open_pages>>
    /\ UNCHANGED qualify_frame

QualifyNext ==
    \/ ProcessUrlCall
    \/ ProcessUrlNewPage
    \/ ProcessUrlClosePage
    \/ ProcessRestaurantsStep
    \/ ProcessRestaurantsCloseBrowser
    \/ ProcessRestaurantsReturn

SpecQualify == QualifyInit /\ [][QualifyNext]_vars

----------------------------------------------------------------------------
(* Properties of find_logo_candidates (SpecRank) *)

FindDone == pc \in {"find_returned", "find_failed"}

\* the distinct src URLs of a candidate list
DistinctSrcs(cands) == {cands[k].src : k \in DOMAIN cands}

\* index of the first discovered candidate with this src
FirstDiscovered(src) ==
    CHOOSE k \in DOMAIN logo_candidates :
        /\ logo_candidates[k].src = src
        /\ \A j \in 1..(k - 1) : logo_candidates[j].src # src

\* the discovered candidates that are the first with their src
FirstOfSrc == {k \in DOMAIN logo_candidates : FirstDiscovered(logo_candidates[k].src) = k}

\* position of a discovered candidate in the returned list, 0 when it is not in it
Rank(k) ==
    IF \E i \in DOMAIN candidates : candidates[i] = logo_candidates[k]
    THEN CHOOSE i \in DOMAIN candidates : candidates[i] = logo_candidates[k]
    ELSE 0

\* discovered candidate k is ranked before discovered candidate m: whenever m
\* is returned, k is returned at an earlier position
RankedBefore(k, m) == Rank(m) # 0 => (Rank(k) # 0 /\ Rank(k) < Rank(m))

\* the candidates discovered for the first two images of ScenarioPage
ScenarioA ==
    [src |-> "https://a.io/a.png", alt |-> "site logo", class |-> "", id |-> "",
     width |-> 200, height |-> 100, selector |-> "header img",
     position |-> [x |-> 10, y |-> 100, width |-> 200, height |-> 100]]

ScenarioB ==
    [src |-> "https://a.io/b.png", alt |-> "", class |-> "", id |-> "",
     width |-> 200, height |-> 100, selector |-> "img",
     position |-> [x |-> 10, y |-> 700, width |-> 200, height |-> 100]]

\* C24: every page opened by find_logo_candidates is closed before the
\* function returns, on the success path and on every failure path, so no
\* page is open once the call is over.
C24_PagesClosedOnReturn == FindDone => open_pages = 0

\* C11 as stated: for A (y=100, 200x100, alt 'site logo'), B (y=700, 200x100,
\* no alt, another src) and C (src of A, other attributes) discovered in
\* this order, the ranked output is [A] only.
C11_OutputIsAOnly ==
    (pc = "find_returned" /\ page = ScenarioPage) => candidates = <<ScenarioA>>

\* C11 amended: for A, B and C discovered in this order the ranked output is
\* [A, B]: C is dropped as a duplicate of A although it scores higher, and
\* B, which scores lower than A, follows A because two candidates are
\* fewer than the limit of 10.
C11_OutputIsAThenB ==
    (pc = "find_returned" /\ page = ScenarioPage) =>
        /\ candidates = <<ScenarioA, ScenarioB>>
        /\ _score_logo_candidate(ScenarioA) > _score_logo_candidate(ScenarioB)
        /\ \A i \in DOMAIN candidates : candidates[i].alt # "Brand logo"

\* the three images were discovered, the third with the src of the first and
\* a higher score, and the call returned
C11_Witness ==
    /\ pc = "find_returned"
    /\ page = ScenarioPage
    /\ Len(logo_candidates) = 3
    /\ logo_candidates[3].src = logo_candidates[1].src
    /\ _score_logo_candidate(logo_candidates[3])
          > _score_logo_candidate(logo_candidates[1])
    /\ Len(candidates) = 2

\* the absolute src of an image of the page
SrcOf(img) == urljoin(EnsureProtocol(url), img.src)

ZeroBox == [x |-> 0, y |-> 0, width |-> 0, height |-> 0]

\* C12: a bounding box that is missing or fails is never an error of the
\* call: the call returns, with a candidate for every other image that has a
\* src urljoin takes and a box that passes the size filter; an image whose
\* box is missing or fails when the size is read gives no candidate; a
\* candidate whose box is missing or fails when the position is read has the
\* zero box as its position; and every candidate with the zero position gets
\* the positional bonus of 3.0.
C12_MissingBoxIsZeroPosition ==
    pc = "find_returned" =>
        /\ \A k \in DOMAIN page : \A absolute_src \in {SrcOf(page[k])} :
              LET img == page[k]
                  from_img == {m \in DOMAIN logo_candidates :
                                  logo_candidates[m].src = absolute_src}
              IN  /\ (img.src # "" /\ ~IsBox(img.box)) => from_img = {}
                  /\ (img.src # "" /\ absolute_src # ValueError /\ IsBox(img.box)
                        /\ img.box.width >= 50 /\ img.box.height >= 20)
                     => /\ from_img # {}
                        /\ ~IsBox(img.box_again) =>
                              \A m \in from_img :
                                  /\ logo_candidates[m].position = ZeroBox
                                  /\ logo_candidates[m].width = img.box.width
                                  /\ logo_candidates[m].height = img.box.height
        /\ \A m \in DOMAIN logo_candidates :
              LET c == logo_candidates[m]
              IN  c.position = ZeroBox =>
                     _score_logo_candidate(c)
                       = 30 + SizeScore(c.width, c.height) + KeywordScore(TextToCheck(c))

\* the page has an image whose first bounding_box() call raises and one
\* whose second call raises; the second is returned with the zero position
\* and the size of its box
C12_Witness ==
    /\ pc = "find_returned"
    /\ \E k \in DOMAIN page : page[k].src # "" /\ page[k].box = BoxRaises
    /\ \E i \in DOMAIN candidates :
          /\ candidates[i].position = ZeroBox
          /\ candidates[i].width = 500
          /\ candidates[i].src = "https://a.io/detached.png"

\* C1: find_logo_candidates returns at most 10 candidates and at most as many
\* as there are distinct src URLs among the discovered images.
C1_AtMostLimitAndDistinct ==
    FindDone =>
        /\ Len(candidates) <= 10
        /\ Len(candidates) <= Cardinality(DistinctSrcs(logo_candidates))

\* more than 10 distinct src were discovered, some of them twice, and 10 are returned
C1_Witness ==
    /\ pc = "find_returned"
    /\ Cardinality(DistinctSrcs(logo_candidates)) > 10
    /\ Len(logo_candidates) > Cardinality(DistinctSrcs(logo_candidates))
    /\ Len(candidates) = 10

\* C2: deduplication keys on the exact absolute src: every returned candidate
\* is, unchanged, the first discovered candidate with its src, no src is
\* returned twice, and srcs that differ in any character count as distinct
\* (every distinct src is returned, up to the limit of 10).
C2_FirstOfExactSrcKept ==
    FindDone =>
        /\ \A i \in DOMAIN candidates :
              candidates[i] = logo_candidates[FirstDiscovered(candidates[i].src)]
        /\ \A i, j \in DOMAIN candidates :
              i # j => candidates[i].src # candidates[j].src
        /\ Len(candidates) =
              (IF Cardinality(DistinctSrcs(logo_candidates)) < 10
               THEN Cardinality(DistinctSrcs(logo_candidates)) ELSE 10)

\* two discovered candidates share a src and differ in their attributes; the
\* first is returned, the second is not
C2_Witness ==
    /\ pc = "find_returned"
    /\ \E k, m \in DOMAIN logo_candidates :
          /\ k < m
          /\ logo_candidates[k].src = logo_candidates[m].src
          /\ logo_candidates[k].alt # logo_candidates[m].alt
          /\ Rank(k) # 0
          /\ Rank(m) = 0

\* C3: the returned candidates are in non-increasing order of score, and
\* returned candidates of equal score are in discovery order.  Stated on
\* neighbours: equal scores are then contiguous, so it holds of every pair.
C3_SortedDescendingStable ==
    FindDone =>
        \A i \in 1..(Len(candidates) - 1) :
            LET a == _score_logo_candidate(candidates[i])
                b == _score_logo_candidate(candidates[i + 1])
            IN  /\ a >= b
                /\ a = b =>
                      FirstDiscovered(candidates[i].src)
                        < FirstDiscovered(candidates[i + 1].src)

\* the sort moved a later discovered candidate forward, and two returned
\* candidates have the same score
C3_Witness ==
    /\ pc = "find_returned"
    /\ \E i, j \in DOMAIN candidates :
          /\ i < j
          /\ FirstDiscovered(candidates[i].src) > FirstDiscovered(candidates[j].src)
    /\ \E i, j \in DOMAIN candidates :
          /\ i < j
          /\ _score_logo_candidate(candidates[i]) = _score_logo_candidate(candidates[j])

\* C4: no returned candidate is narrower than 50 or lower than 20, and an
\* image of exactly 50 by 20 (with a src) is among the discovered candidates.
C4_SmallImagesExcluded ==
    FindDone =>
        /\ \A i \in DOMAIN candidates :
              candidates[i].width >= 50 /\ candidates[i].height >= 20
        /\ \A k \in DOMAIN page :
              (page[k].src # "" /\ IsBox(page[k].box)
                 /\ (page[k].box.width < 50 \/ page[k].box.height < 20))
              => \A i \in DOMAIN candidates :
                    ~(/\ candidates[i].alt = page[k].alt
                      /\ candidates[i].width = page[k].box.width
                      /\ candidates[i].height = page[k].box.height)
        /\ \A k \in DOMAIN page :
              (pc = "find_returned" /\ page[k].src # "" /\ IsBox(page[k].box)
                 /\ page[k].box.width = 50 /\ page[k].box.height = 20)
              => \E m \in DOMAIN logo_candidates :
                    /\ logo_candidates[m].src = urljoin(EnsureProtocol(url), page[k].src)
                    /\ logo_candidates[m].width = 50
                    /\ logo_candidates[m].height = 20

\* the page holds an image 40 wide full of keywords and an image of 50 by 20,
\* and the second is returned
C4_Witness ==
    /\ pc = "find_returned"
    /\ \E k \in DOMAIN page :
          /\ IsBox(page[k].box)
          /\ page[k].box.width = 40
          /\ page[k].alt = "Company Logo"
    /\ \E i \in DOMAIN candidates :
          candidates[i].width = 50 /\ candidates[i].height = 20

\* the six keywords of the claims
ClaimKeywords == {"logo", "brand", "header", "nav", "company", "site"}

\* the keywords that occur in the lowercased text
KeywordsOf(text) == {w \in ClaimKeywords : Contains(w, Lower(text))}

\* discovered candidates k and m both survive deduplication, k has alt
\* 'Company Logo', m has empty alt, and they agree in class, id, size,
\* position and the keywords of their (different) src
AltPair(k, m) ==
    /\ logo_candidates[k].alt = "Company Logo"
    /\ logo_candidates[m].alt = ""
    /\ logo_candidates[k].class = logo_candidates[m].class
    /\ logo_candidates[k].id = logo_candidates[m].id
    /\ logo_candidates[k].width = logo_candidates[m].width
    /\ logo_candidates[k].height = logo_candidates[m].height
    /\ logo_candidates[k].position = logo_candidates[m].position
    /\ k \in FirstOfSrc
    /\ m \in FirstOfSrc
    /\ KeywordsOf(logo_candidates[k].src) = KeywordsOf(logo_candidates[m].src)

\* C9 as claimed: of two candidates that differ in alt 'Company Logo' against
\* empty alt, the first scores strictly higher and is ranked before the other.
C9_AltAlwaysStrictlyHigher ==
    FindDone =>
        \A k, m \in DOMAIN logo_candidates :
            AltPair(k, m) =>
                /\ _score_logo_candidate(logo_candidates[k])
                     > _score_logo_candidate(logo_candidates[m])
                /\ RankedBefore(k, m)

\* C9 amended: the candidate with alt 'Company Logo' never scores lower; it
\* scores strictly higher and is ranked before the other unless class, id and
\* src already contain both 'company' and 'logo'; then the scores are equal
\* and the two are ranked in discovery order.
C9_AltHigherUnlessAlreadyMatched ==
    FindDone =>
        \A k, m \in DOMAIN logo_candidates :
            AltPair(k, m) =>
                LET a == _score_logo_candidate(logo_candidates[k])
                    b == _score_logo_candidate(logo_candidates[m])
                    rest == logo_candidates[m].class \o " " \o logo_candidates[m].id
                              \o " " \o logo_candidates[m].src
                    matched == {"company", "logo"} \subseteq KeywordsOf(rest)
                IN  /\ a >= b
                    /\ ~matched => (a > b /\ RankedBefore(k, m))
                    /\ matched =>
                          /\ a = b
                          /\ k < m => RankedBefore(k, m)
                          /\ m < k => RankedBefore(m, k)

\* the candidate with empty alt was discovered first, class, id and src do not
\* contain both keywords, and the candidate with 'Company Logo' is returned
\* before it
C9_Witness ==
    /\ pc = "find_returned"
    /\ \E k, m \in DOMAIN logo_candidates :
          /\ AltPair(k, m)
          /\ m < k
          /\ ~Contains("company", Lower(logo_candidates[m].src))
          /\ Rank(k) # 0
          /\ Rank(k) < Rank(m)

\* discovered candidates k and m both survive deduplication, k is at y = 50,
\* m at y = 700, and they agree in size and in the keywords they match
YPair(k, m) ==
    /\ logo_candidates[k].position.y = 50
    /\ logo_candidates[m].position.y = 700
    /\ logo_candidates[k].width = logo_candidates[m].width
    /\ logo_candidates[k].height = logo_candidates[m].height
    /\ k \in FirstOfSrc
    /\ m \in FirstOfSrc
    /\ KeywordsOf(TextToCheck(logo_candidates[k]))
         = KeywordsOf(TextToCheck(logo_candidates[m]))

\* C10: of two candidates of identical size and keyword matches at y = 50 and
\* y = 700, the one at y = 50 is ranked before the one at y = 700, whichever
\* was discovered first.
C10_TopOfPageRankedFirst ==
    FindDone =>
        \A k, m \in DOMAIN logo_candidates :
            YPair(k, m) => RankedBefore(k, m)

\* the candidate at y = 700 was discovered first and is returned behind the
\* candidate at y = 50
C10_Witness ==
    /\ pc = "find_returned"
    /\ \E k, m \in DOMAIN logo_candidates :
          /\ YPair(k, m)
          /\ m < k
          /\ Rank(k) # 0
          /\ Rank(k) < Rank(m)

----------------------------------------------------------------------------
(* Properties of _score_logo_candidate (SpecScore) *)

\* the keywords each sample text contains, read off the text by hand
SampleKeywords(text) ==
    CASE text = "Company Logo" -> {"company", "logo"}
      [] text = "Site NAV" -> {"site", "nav"}
      [] text = "Our brands" -> {"brand"}
      [] text = "navbar-brand" -> {"nav", "brand"}
      [] text = "Header-img" -> {"header"}
      [] text = "logo" -> {"logo"}
      [] text = "LOGO2" -> {"logo"}
      [] text = "/logo.png" -> {"logo"}
      [] text = "https://a.io/logo.png" -> {"logo"}
      [] text = "https://mysite.io/company-logo.png" -> {"site", "company", "logo"}
      [] text = "https://a.io/navi/brand.svg" -> {"nav", "brand"}
      [] text = "header brand" -> {"header", "brand"}
      [] text = "Site NAV logo LOGO brand" -> {"site", "nav", "logo", "brand"}
      [] text = "header brand nav navbar" -> {"header", "brand", "nav"}
      [] text = "https://mysite.io/company-logo.png/logo/brand-logo.png"
            -> {"site", "company", "logo", "brand"}
      [] OTHER -> {}

\* the keywords of the four attributes of the scored candidate
CandKeywords ==
    SampleKeywords(cand.alt) \cup SampleKeywords(cand.class)
    \cup SampleKeywords(cand.id) \cup SampleKeywords(cand.src)

\* C5: the vertical-position part of the score is 3.0 for y < 150, 2.0 for
\* 150 <= y < 300, 1.0 for 300 <= y < 600 and 0.0 for y >= 600.
C5_PositionBands ==
    pc = "score_return" =>
        LET part == score - SizeScore(cand.width, cand.height)
                          - KeywordScore(TextToCheck(cand))
            y == cand.position.y
        IN  /\ y < 150 => part = 30
            /\ (150 <= y /\ y < 300) => part = 20
            /\ (300 <= y /\ y < 600) => part = 10
            /\ y >= 600 => part = 0

\* a candidate at y = 150, without keywords and outside both size bands, was
\* scored 2.0
C5_Witness ==
    /\ pc = "score_return"
    /\ cand.position.y = 150
    /\ cand.width = 40
    /\ cand.src = "/1.png"
    /\ score = 20

\* C6: the size part of the score is 2.0 when 100 <= width <= 400 and
\* 50 <= height <= 200, otherwise 1.0 when 50 <= width <= 600 and
\* 20 <= height <= 300, otherwise 0.0.
C6_SizeBands ==
    pc = "score_return" =>
        LET part == score - PositionScore(cand.position.y)
                          - KeywordScore(TextToCheck(cand))
            w == cand.width
            h == cand.height
            ideal == 100 <= w /\ w <= 400 /\ 50 <= h /\ h <= 200
            fair == 50 <= w /\ w <= 600 /\ 20 <= h /\ h <= 300
        IN  /\ ideal => part = 20
            /\ (~ideal /\ fair) => part = 10
            /\ (~ideal /\ ~fair) => part = 0

\* a candidate of exactly 400 by 200, without keywords and at y = 700, was
\* scored 2.0
C6_Witness ==
    /\ pc = "score_return"
    /\ cand.width = 400
    /\ cand.height = 200
    /\ cand.position.y = 700
    /\ score = 20

\* C7: the keyword part of the score is 1.5 for each of the six keywords that
\* occurs in the lowercased alt, class, id and src (counted once), plus 2.0
\* for 'logo', plus 1.5 for 'brand', plus 1.0 once for any of header, nav,
\* brand; 'logo' alone gives 3.5 and 'brand' alone 4.0.
C7_KeywordBonus ==
    pc = "score_return" =>
        LET part == score - PositionScore(cand.position.y)
                          - SizeScore(cand.width, cand.height)
            K == CandKeywords
        IN  /\ part = 15 * Cardinality(K)
                       + (IF "logo" \in K THEN 20 ELSE 0)
                       + (IF "brand" \in K THEN 15 ELSE 0)
                       + (IF K \cap {"header", "nav", "brand"} # {} THEN 10 ELSE 0)
            /\ K = {"logo"} => part = 35
            /\ K = {"brand"} => part = 40

\* a candidate with 'logo' in alt, id and src and 'company' in alt got 1.5
\* twice and 2.0 once on top of position and size
C7_Witness ==
    /\ pc = "score_return"
    /\ cand.alt = "Company Logo"
    /\ cand.class = ""
    /\ cand.id = "logo"
    /\ cand.src = "https://a.io/logo.png"
    /\ cand.position.y = 700
    /\ cand.width = 200
    /\ score = 20 + 50

\* the largest value of each part: 3.0 for the position, 2.0 for the size,
\* 1.5 for each of the six keywords, and the bonuses 2.0, 1.5 and 1.0
ScoreCap == 30 + 20 + 6 * 15 + 20 + 15 + 10

\* the size part of the score of the candidate just scored
SizePart ==
    score - PositionScore(cand.position.y) - KeywordScore(TextToCheck(cand))

\* C20 as stated: an image whose width is exactly 400, with a height inside
\* [50, 200], does not get the 2.0 of the first size band.
C20_Width400HasNoIdealBand ==
    (pc = "score_return" /\ cand.width = 400
       /\ 50 <= cand.height /\ cand.height <= 200)
        => SizePart # 20

\* C20 amended: the boundary values belong to the bands: a width of exactly
\* 100 or 400 with a height in [50, 200], and a height of exactly 50 or 200
\* with a width in [100, 400], get the 2.0 of the first band; outside it, a
\* width of exactly 50 or 600 with a height in [20, 300], and a height of
\* exactly 20 or 300 with a width in [50, 600], get the 1.0 of the second;
\* a width of 401 with a height in [50, 200] gets 1.0.
C20_BoundariesBelongToBands ==
    pc = "score_return" =>
        LET w == cand.width
            h == cand.height
            first == 100 <= w /\ w <= 400 /\ 50 <= h /\ h <= 200
        IN  /\ (w \in {100, 400} /\ 50 <= h /\ h <= 200) => SizePart = 20
            /\ (h \in {50, 200} /\ 100 <= w /\ w <= 400) => SizePart = 20
            /\ (~first /\ w \in {50, 600} /\ 20 <= h /\ h <= 300) => SizePart = 10
            /\ (~first /\ h \in {20, 300} /\ 50 <= w /\ w <= 600) => SizePart = 10
            /\ (w = 401 /\ 50 <= h /\ h <= 200) => SizePart = 10

\* a candidate of exactly 400 by 50 at y = 50 without keywords was scored
\* 3.0 + 2.0
C20_Witness ==
    /\ pc = "score_return"
    /\ cand.width = 400
    /\ cand.height = 50
    /\ cand.position.y = 50
    /\ KeywordScore(TextToCheck(cand)) = 0
    /\ score = 50

\* C16 as stated: scores are unbounded above, for every bound there is a
\* candidate whose score exceeds it; so when a call returns 18.5 or more,
\* some candidate scores more than that.
C16_ScoresUnbounded ==
    (pc = "score_return" /\ score >= ScoreCap) =>
        \E c \in ScoreInputs : _score_logo_candidate(c) > score

\* C16 amended: the score is the sum of the position, size and keyword
\* parts, with no clamping of the sum; each part is bounded (a keyword
\* counts once however often it occurs), so the score lies between 0 and
\* 18.5 = 3.0 + 2.0 + 6 * 1.5 + 2.0 + 1.5 + 1.0.
C16_AdditiveAndBounded ==
    pc = "score_return" =>
        /\ score = PositionScore(cand.position.y)
                   + SizeScore(cand.width, cand.height)
                   + KeywordScore(TextToCheck(cand))
        /\ 0 <= score
        /\ score <= ScoreCap
        /\ PositionScore(cand.position.y) <= 30
        /\ SizeScore(cand.width, cand.height) <= 20
        /\ KeywordScore(TextToCheck(cand)) <= 6 * 15 + 20 + 15 + 10

\* a candidate with every keyword several times, at the top of the page and
\* in the ideal size, scored 18.5
C16_Witness ==
    /\ pc = "score_return"
    /\ cand.alt = "Site NAV logo LOGO brand"
    /\ score = ScoreCap

----------------------------------------------------------------------------
(* Properties of process_website (Spec) *)

\* C8: when no image is discovered, find_logo_candidates returns the empty
\* list, and process_website reports candidates_found = 0 with the error
\* 'No logo candidates found' and calls neither download nor validation.
C8_EmptyPageReported ==
    /\ (pc = "find_returned" /\ logo_candidates = <<>>) => candidates = <<>>
    /\ (pc = "pw_returned" /\ logo_candidates = <<>>) =>
          /\ candidates = <<>>
          /\ result.candidates_found = 0
          /\ result.error = "No logo candidates found"
          /\ ~result.logo_found
          /\ downloads = <<>>
          /\ validations = <<>>

\* process_website returned for a page without images that loaded and was
\* closed
C8_Witness ==
    /\ pc = "pw_returned"
    /\ page = <<>>
    /\ open_pages = 0
    /\ logo_candidates = <<>>
    /\ result.candidates_found = 0
    /\ result.error = "No logo candidates found"

\* a validation with is_logo = true and a confidence of at least 70
IsLogoWithConfidence70(validation) ==
    /\ validation.type = "dict"
    /\ validation.is_logo
    /\ validation.confidence_type = "int"
    /\ validation.confidence >= 70

\* position of a src in the ranked candidates (their srcs are distinct)
RankOfSrc(src) == CHOOSE k \in DOMAIN candidates : candidates[k].src = src

\* the candidates are downloaded in ranked order without gaps and validated
\* in ranked order; while the loop runs nothing was accepted; a validation
\* with is_logo and confidence >= 70 is accepted at once, and what is
\* reported is the candidate downloaded and validated last
C13_TestedInOrder ==
    /\ Len(downloads) <= Len(candidates)
    /\ \A k \in DOMAIN downloads : downloads[k] = candidates[k].src
    /\ \A k \in DOMAIN validations :
          /\ RankOfSrc(validations[k]) <= Len(downloads)
          /\ k > 1 => RankOfSrc(validations[k - 1]) < RankOfSrc(validations[k])
    /\ pc = "pw_loop" => (~result.logo_found /\ Len(downloads) = idx)
    /\ (validations # <<>> /\ IsLogoWithConfidence70(last_validation))
          => result.logo_found
    /\ result.logo_found =>
          /\ pc = "pw_returned"
          /\ IsLogoWithConfidence70(last_validation)
          /\ result.logo_url = candidates[Len(downloads)].src
          /\ result.logo_url = validations[Len(validations)]
          /\ result.logo_confidence = last_validation.confidence

\* once a logo is found there is no further download, validation or delay
C13_NothingAfterAcceptance ==
    result.logo_found => UNCHANGED <<downloads, validations, log, result>>

\* C13: process_website tests the ranked candidates in order and accepts the
\* first one whose validation has is_logo = true and confidence >= 70 (70 is
\* accepted, 69 is not); after the first acceptance no later candidate is
\* downloaded or validated, and logo_url is the src of the accepted one.
C13_FirstAcceptedWins ==
    []C13_TestedInOrder /\ [][C13_NothingAfterAcceptance]_vars

\* the first candidate was skipped, the second rejected, the third accepted
\* with confidence exactly 70, and later candidates were left untested
C13_Witness ==
    /\ pc = "pw_returned"
    /\ result.logo_found
    /\ result.logo_confidence = 70
    /\ Len(downloads) = 3
    /\ Len(validations) = 2
    /\ validations[1] = candidates[2].src
    /\ result.logo_url = candidates[3].src
    /\ Len(candidates) > 3

\* C26: in every record process_website returns, logo_found is true exactly
\* when the last tested candidate was validated with is_logo true and a
\* confidence of 70 or more; then logo_url is the src of that candidate, one
\* of the at most 10 ranked candidates, logo_confidence is 70 or more and
\* error is empty; otherwise logo_url is empty, logo_confidence is 0 and
\* error is not empty; candidates_found is the number of ranked candidates
\* and at most 10.
C26_ResultRecord ==
    pc = "pw_returned" =>
        LET accepted == /\ validations # <<>>
                        /\ last_validation.type = "dict"
                        /\ last_validation.is_logo
                        /\ last_validation.confidence_type = "int"
                        /\ last_validation.confidence >= 70
        IN  /\ result.logo_found <=> accepted
            /\ result.logo_found =>
                  /\ \E k \in DOMAIN candidates : result.logo_url = candidates[k].src
                  /\ result.logo_url = validations[Len(validations)]
                  /\ result.logo_confidence >= 70
                  /\ result.logo_confidence = last_validation.confidence
                  /\ result.error = ""
            /\ ~result.logo_found =>
                  /\ result.logo_url = ""
                  /\ result.logo_confidence = 0
                  /\ result.error # ""
            /\ result.candidates_found = Len(candidates)
            /\ result.candidates_found <= 10
            /\ result.url = url

\* a website with 10 ranked candidates: the first was rejected, the second
\* accepted with a confidence of exactly 70
C26_Witness ==
    /\ pc = "pw_returned"
    /\ result.candidates_found = 10
    /\ Len(page) > 10
    /\ result.logo_found
    /\ result.logo_url = candidates[2].src
    /\ result.logo_confidence = 70
    /\ Len(validations) = 2

\* C17: an image of more than 20 MiB (20 * 1024 * 1024 bytes) is never
\* submitted to the vision validation: for the latest download, when the
\* server sent more than 20 MiB, download_image returned None, no validation
\* was called for that src and the loop moved on to the next candidate (or
\* ended behind the last); when it sent exactly 20 MiB, these bytes were
\* submitted; and whatever was submitted is what the server sent and is at
\* most 20 MiB.
C17_OversizedNeverSubmitted ==
    downloads # <<>> =>
        LET src == downloads[Len(downloads)]
            submitted == validations # <<>> /\ validations[Len(validations)] = src
        IN  /\ (last_response.ok /\ last_response.length > 20 * 1024 * 1024) =>
                  /\ last_image_bytes = None
                  /\ \A k \in DOMAIN validations : validations[k] # src
                  /\ \A k \in DOMAIN log :
                        log[k].op = "validate" => log[k].src # src
                  /\ idx = Len(downloads)
                  /\ idx < Len(candidates) => pc = "pw_loop"
            /\ (last_response.ok /\ last_response.length = 20 * 1024 * 1024) =>
                  /\ last_image_bytes = last_response.length
                  /\ submitted
            /\ submitted =>
                  /\ last_response.ok
                  /\ last_image_bytes = last_response.length
                  /\ last_image_bytes <= 20 * 1024 * 1024

\* the first candidate was validated and rejected, the image of the second
\* has 20 MiB + 1 bytes and was not validated, and the loop goes on
C17_Witness ==
    /\ pc = "pw_loop"
    /\ Len(downloads) = 2
    /\ last_response.ok
    /\ last_response.length = 20 * 1024 * 1024 + 1
    /\ validations = <<downloads[1]>>
    /\ idx = 2
    /\ Len(candidates) > 2

\* C15: within process_website a failure on one candidate (download error,
\* oversized image, vision API error, malformed AI response of any shape)
\* is caught for that candidate only, and every remaining ranked candidate
\* is still tested: when process_website returns without an accepted logo,
\* every ranked candidate was downloaded.
C15_EveryCandidateTested ==
    (pc = "pw_returned" /\ ~result.logo_found) => Len(downloads) = Len(candidates)

----------------------------------------------------------------------------
(* Properties of the batch loops (SpecBatch) *)

\* the calls that process a row, in order
ProcessingCalls ==
    SelectSeq(log, LAMBDA e : e.op \in {"process_website",
                                        "find_contact_info_for_restaurant",
                                        "process_single_logo"})

\* processing the row fails
RowFails(row) ==
    row.outcome \in {"download_fails", "load_fails", "raises", "agent_fails", "bad_row",
                     "fails"}

\* the error a result records
ErrorOf(res) == IF "error_details" \in DOMAIN res THEN res.error_details ELSE res.error

\* the loop is inside an iteration: the row's call is made and has not
\* returned
InsideIteration ==
    pc \in {"process_csv_file.new_page", "process_csv_file.page_open",
            "process_csv_file.process_website", "process_all_restaurants.find"}

\* the items a batch loop iterates over
Items ==
    IF StartsWith(pc, "process_csv_file") THEN Zip(rows) ELSE rows

\* C14: a failure while processing one item never aborts a batch: in
\* process_csv_file, process_all_restaurants and process_csv_batch the loop
\* is never left by an exception, the rows processed so far are all the
\* rows in front of the loop position, each once and in order, the function
\* returns only behind the last row, a failing row is recorded with an
\* error or not recorded, and every other row is recorded once.
C14_BatchSurvivesItemFailure ==
    /\ pc \notin {"process_csv_file_raised", "process_csv_batch_raised"}
    /\ Len(ProcessingCalls) = row_idx + (IF InsideIteration THEN 1 ELSE 0)
    /\ \A k \in DOMAIN ProcessingCalls : ProcessingCalls[k].row = k
    /\ pc \in {"process_csv_file.browser_closed", "process_csv_file_returned",
               "process_all_restaurants_returned", "process_csv_batch_returned"} =>
          row_idx = Len(Items)
    /\ \A k \in 1..row_idx :
          LET recorded == {j \in DOMAIN results : results[j].url = Items[k].url}
          IN  IF RowFails(Items[k])
              THEN /\ Cardinality(recorded) <= 1
                   /\ \A j \in recorded : ErrorOf(results[j]) # ""
              ELSE Cardinality(recorded) = 1

\* process_csv_file returned for a file whose first website fails with an
\* exception inside process_website: it is recorded with the error, and the
\* two websites behind it were processed and recorded
C14_Witness ==
    /\ pc = "process_csv_file_returned"
    /\ Len(rows) = 3
    /\ rows[1].outcome = "raises"
    /\ rows[2].outcome = "logo"
    /\ Len(results) = 3
    /\ results[1].error # ""
    /\ results[2].logo_found
    /\ saved = results

----------------------------------------------------------------------------
(* Properties of interleaved calls (SpecCalls) *)

\* the two callers run find_logo_candidates
BothRank == \A c \in Callers : calls[c].fn = "find_logo_candidates"

\* what find_logo_candidates returns for the inputs of a call when nothing
\* else runs
Alone(call) ==
    RankCandidates(Discover(EnsureProtocol(call.url), call.page, 1))

\* a finished call has the result of the same call run alone, and the two
\* scores of a candidate scored twice, each computed from the candidate and
\* the keyword list as they were at that call, are equal
CallsAsAlone ==
    \A c \in DOMAIN calls :
        /\ (calls[c].fn = "find_logo_candidates" /\ calls[c].pc = "returned")
              => calls[c].candidates = Alone(calls[c])
        /\ (calls[c].fn = "find_logo_candidates" /\ calls[c].pc = "failed")
              => calls[c].candidates = <<>>
        /\ (calls[c].fn = "_score_logo_candidate" /\ Len(calls[c].scores) = 2)
              => calls[c].scores[1] = calls[c].scores[2]

\* a step changes no field of the LogoFinder (the keyword list among them),
\* no input of a call, and no local of a call other than the one stepping
CallsFrame ==
    /\ self' = self
    /\ \A c \in DOMAIN calls :
          /\ calls'[c].cand = calls[c].cand
          /\ calls'[c].url = calls[c].url
          /\ calls'[c].page = calls[c].page
    /\ \E c \in DOMAIN calls : \A d \in DOMAIN calls \ {c} : calls'[d] = calls[d]

----------------------------------------------------------------------------
(* Properties of the delays (SpecDelays) *)

\* entries i < j of the log are calls of op with no call of op between them
Consecutive(op, i, j) ==
    /\ i < j
    /\ log[i].op = op
    /\ log[j].op = op
    /\ \A m \in (i + 1)..(j - 1) : log[m].op # op

\* between any two consecutive calls of op the log has exactly one delay,
\* of the given seconds
OneDelayBetween(op, seconds) ==
    \A i \in DOMAIN log :
        log[i].op = op =>
            \A j \in (i + 1)..Len(log) :
                Consecutive(op, i, j) =>
                    /\ Cardinality({m \in (i + 1)..(j - 1) : log[m].op = "sleep"}) = 1
                    /\ \A m \in (i + 1)..(j - 1) :
                          log[m].op = "sleep" => log[m].seconds = seconds

\* validate_logo_with_ai returned one of its two fallback dicts
ValidationFailed(validation) ==
    validation.reasoning \in {"API error: timeout", "Could not parse AI response"}

\* the entry of the log behind entry j is a delay of the given seconds
DelayFollows(j, seconds) ==
    /\ j < Len(log)
    /\ log[j + 1] = [op |-> "sleep", seconds |-> seconds]

\* between any two consecutive websites the log has exactly one delay of 2
\* seconds, directly in front of the second website, and apart from it only
\* delays of 1 second, which process_website made
WebsiteDelayBetween ==
    \A i \in DOMAIN log :
        log[i].op = "process_website" =>
            \A j \in (i + 1)..Len(log) :
                Consecutive("process_website", i, j) =>
                    /\ log[j - 1] = [op |-> "sleep", seconds |-> 2]
                    /\ \A m \in (i + 1)..(j - 2) :
                          log[m] = [op |-> "sleep", seconds |-> 1]

\* the website of entry j is recorded and the delay of 2 seconds behind it
\* is made, with no other website in front of that delay
WebsiteDelayFollows(j) ==
    \E m \in (j + 1)..Len(log) :
        /\ log[m] = [op |-> "sleep", seconds |-> 2]
        /\ \A n \in (j + 1)..(m - 1) : log[n] = [op |-> "sleep", seconds |-> 1]

\* C19: external calls are separated by fixed delays without backoff and
\* without retry: in process_website exactly one delay of 1 second lies
\* between any two consecutive validations, in process_csv_file exactly one
\* delay of 2 seconds lies between any two consecutive websites, directly in
\* front of the second, next to the delays of 1 second process_website made
\* for the first; a validation that failed and a website that failed are
\* followed by the same delay as any other; and no image is downloaded or
\* validated twice and no website processed twice.
C19_FixedDelaysNoRetry ==
    /\ OneDelayBetween("validate", 1)
    /\ WebsiteDelayBetween
    /\ \A j \in DOMAIN log :
          /\ (log[j].op = "validate" /\ j < Len(log)) => DelayFollows(j, 1)
          /\ (log[j].op = "process_website" /\ log[j].row <= row_idx)
                => WebsiteDelayFollows(j)
          /\ (log[j].op = "sleep" /\ log[j - 1].op = "validate") => log[j].seconds = 1
          /\ log[j].op = "sleep" => log[j].seconds \in {1, 2}
    /\ (validations # <<>> /\ ValidationFailed(last_validation)) =>
          \E j \in DOMAIN log :
              /\ log[j] = [op |-> "validate", src |-> validations[Len(validations)]]
              /\ DelayFollows(j, 1)
    /\ \A i, j \in DOMAIN log :
          (i < j /\ log[i].op = log[j].op) =>
              /\ log[i].op \in {"download", "validate"} => log[i].src # log[j].src
              /\ log[i].op = "process_website" => log[i].row # log[j].row

\* process_website validated two images with a failed download between
\* them, the second validation failed with an API error, and the loop goes
\* on behind its delay
C19_Witness ==
    /\ pc = "pw_loop"
    /\ Len(downloads) = 3
    /\ validations = <<downloads[1], downloads[3]>>
    /\ last_validation.reasoning = "API error: timeout"
    /\ Len(log) = 7
    /\ log[3] = [op |-> "sleep", seconds |-> 1]
    /\ log[4].op = "download"
    /\ log[5].op = "download"
    /\ log[7] = [op |-> "sleep", seconds |-> 1]

----------------------------------------------------------------------------
(* Properties of filter_restaurants_batch (SpecFilter) *)

\* the batch of the g-th restaurant and its 1-based index within it
BatchOf(g) == ((g - 1) \div batch_size) + 1
IndexInBatch(g) == ((g - 1) % batch_size) + 1

\* how often the g-th restaurant occurs in the output
Occurrences(g) ==
    Cardinality({k \in DOMAIN filtered_restaurants :
                    filtered_restaurants[k] = restaurants_data[g]})

\* the answer has both lists and the number n is in the list
InList(n, list) ==
    /\ list.list
    /\ \E k \in DOMAIN list.items : list.items[k] = Idx(n)

\* the restaurants whose batch has been processed
Processed ==
    {g \in DOMAIN restaurants_data : BatchOf(g) <= Len(ai_responses)}

\* C21: filter_restaurants_batch is conservative: a restaurant of a processed
\* batch is absent from the output only if the answer for its batch is a dict
\* with both keys whose 'remove' list holds its 1-based index within the
\* batch; a restaurant in neither list, or in a batch whose call failed,
\* whose answer is not JSON or lacks a key, is in the output.
C21_FilterIsConservative ==
    \A g \in Processed :
        LET response == ai_responses[BatchOf(g)]
            n == IndexInBatch(g)
        IN  /\ Occurrences(g) = 0 =>
                  /\ response.kind = "json"
                  /\ InList(n, response.remove)
            /\ response.kind # "json" => Occurrences(g) >= 1
            /\ (response.kind = "json" /\ ~InList(n, response.remove)
                  /\ ~InList(n, response.keep)) => Occurrences(g) >= 1

\* three restaurants in two batches: the answer for the first removes 1 and
\* mentions 2 nowhere, the call for the second failed; the output is the
\* second and the third restaurant
C21_Witness ==
    /\ pc = "filter_returned"
    /\ Len(restaurants_data) = 3
    /\ ai_responses[1] = Answer(List(<<Idx(1)>>), List(<<>>), "none")
    /\ ai_responses[2].kind = "api_error"
    /\ filtered_restaurants = <<Restaurant(2), Restaurant(3)>>

\* C22: the output of filter_restaurants_batch holds each input restaurant at
\* most once and is never longer than the input.
C22_NoDuplicates ==
    /\ \A g \in DOMAIN restaurants_data : Occurrences(g) <= 1
    /\ Len(filtered_restaurants) <= Len(restaurants_data)

\* C23: in process_csv_file every website is processed together with the
\* business name of its own row of the file: every result carries the url
\* and the name of one row.
C23_UrlWithNameOfSameRow ==
    StartsWith(pc, "process_csv_file") =>
        \A j \in DOMAIN results :
            \E k \in DOMAIN rows :
                /\ rows[k].url = results[j].url
                /\ rows[k].name = results[j].website_name

----------------------------------------------------------------------------
(* Properties of extract_contact_from_text (SpecContact) *)

\* the addresses of the text in the order of the text
Addresses == FindAll(email_patterns[1], result_text)

\* both patterns find the same addresses, and none of them twice
EachAddressOnce ==
    /\ Addresses = FindAll(email_patterns[2], result_text)
    /\ \A j, k \in DOMAIN Addresses : Addresses[j] = Addresses[k] => j = k

\* C25: when each address occurs once in the text, the primary email is the
\* first address without an excluded marker (noreply, no-reply, admin@,
\* webmaster@), or the first address at all when every address has one, and
\* additional_emails holds neither the primary email nor an address twice.
C25_PrimaryAndAdditional ==
    (pc = "extract_returned" /\ EachAddressOnce /\ Addresses # <<>>) =>
        LET wanted == SelectSeq(Addresses, NotExcluded)
            more == contact_info.additional_emails
        IN  /\ contact_info.email =
                  (IF wanted # <<>> THEN wanted[1] ELSE Addresses[1])
            /\ \A k \in DOMAIN more : more[k] # contact_info.email
            /\ \A j, k \in DOMAIN more : more[j] = more[k] => j = k

----------------------------------------------------------------------------
(* Properties of search_places (SpecPlaces) *)

RECURSIVE Fetched(_)
\* the places of the answered places_nearby requests from request k on, in
\* the order in which they were received
Fetched(k) ==
    IF k > Len(requests) THEN <<>>
    ELSE (IF requests[k].op = "places_nearby" /\ requests[k].outcome = "ok"
          THEN requests[k].results ELSE <<>>)
         \o Fetched(k + 1)

\* a request failed: geocoding found nothing or a request raised
SomeRequestFailed ==
    \E k \in DOMAIN requests : requests[k].outcome \notin {"found", "ok"}

\* C27: with no place_type, search_places returns at most one place per
\* place_id, namely the first one received across the 'restaurant' search
\* and then the 'meal_takeaway' search, all pages included, every place_id
\* received is returned, and no place without place_id is returned.
C27_FirstPlacePerId ==
    (pc = "search_returned" /\ place_type = NoPlaceType /\ ~SomeRequestFailed) =>
        LET fetched == Fetched(1)
        IN  /\ \A j, k \in DOMAIN found_places :
                  found_places[j].place_id = found_places[k].place_id => j = k
            /\ \A j \in DOMAIN found_places : found_places[j].place_id # ""
            /\ \A j \in DOMAIN found_places :
                  \E k \in DOMAIN fetched :
                      /\ fetched[k] = found_places[j]
                      /\ \A m \in 1..(k - 1) :
                            fetched[m].place_id # found_places[j].place_id
            /\ \A k \in DOMAIN fetched :
                  fetched[k].place_id # "" =>
                      \E j \in DOMAIN found_places :
                          found_places[j].place_id = fetched[k].place_id

\* the restaurant search gave Luigi on its only page, the takeaway search
\* gave Wok and Luigi Takeaway under Luigi's place_id and then a place
\* without place_id: Luigi and Wok are returned
C27_Witness ==
    /\ pc = "search_returned"
    /\ place_type = NoPlaceType
    /\ Len(requests) = 4
    /\ requests[2].results = <<Place("p1", "Luigi")>>
    /\ requests[3].results = <<Place("p2", "Wok"), Place("p1", "Luigi Takeaway")>>
    /\ requests[4].results = <<Place("", "Stall"), Place("p2", "Wok")>>
    /\ found_places = <<Place("p1", "Luigi"), Place("p2", "Wok")>>

\* every search is finished: its last page had no next_page_token
AllSearched ==
    /\ ~SomeRequestFailed
    /\ \A t \in DOMAIN Searches :
          \E k \in DOMAIN requests :
              /\ requests[k].op = "places_nearby"
              /\ requests[k].type = Searches[t]
              /\ ~requests[k].next_page_token

\* C30: search_places is all-or-nothing: it never leaves by an exception,
\* and it returns the places of all pages of all searches (without
\* place_type: one per place_id) when no request failed, and the empty list
\* when geocoding found no location or a request raised, whatever was
\* fetched before.
C30_AllOrNothing ==
    /\ pc # "search_raised"
    /\ pc = "search_returned" =>
          /\ SomeRequestFailed => found_places = <<>>
          /\ ~SomeRequestFailed =>
                /\ AllSearched
                /\ found_places = IF place_type = NoPlaceType
                                  THEN UniquePlaces(Fetched(1), 1, <<>>)
                                  ELSE Fetched(1)

\* the restaurant search had given two places and the first page of the
\* takeaway search one more when the request for its next page raised: the
\* empty list is returned
C30_Witness ==
    /\ pc = "search_returned"
    /\ place_type = NoPlaceType
    /\ Len(requests) = 4
    /\ requests[4].outcome = "raised"
    /\ requests[4].page_token
    /\ Len(all_places) = 2
    /\ Len(places) = 1
    /\ found_places = <<>>

----------------------------------------------------------------------------
(* Properties of process_all_restaurants statement by statement (SpecSave) *)

RECURSIVE Completed(_)
\* the records of the first k restaurants, without those whose search raised
Completed(k) ==
    IF k = 0 THEN <<>>
    ELSE LET res == find_contact_info_for_restaurant(rows[k])
         IN  IF res = Raised THEN Completed(k - 1)
             ELSE Append(Completed(k - 1), res)

\* C28: when process_all_restaurants is interrupted, the output CSV and the
\* JSON backup hold the same records: exactly the results of the restaurants
\* completed before the interruption, in processing order (with or without
\* the restaurant whose result was being saved).
C28_FilesHoldCompleted ==
    pc = "process_all_restaurants.interrupted" =>
        /\ saved.csv = saved.json
        /\ saved.csv \in {Completed(row_idx), results}

----------------------------------------------------------------------------
(* Properties of LeadQualifier.process_restaurants (SpecQualify) *)

\* the screenshot of the website cannot be taken
ScreenshotFails(site) ==
    site.screenshot \in {"new_page_fails", "goto_fails", "screenshot_fails"}

\* the screenshot is taken and the analysis fails: the request raises, the
\* response calls no function or another function, or the arguments of the
\* call are cut off or no object
AnalysisFails(site) ==
    /\ ~ScreenshotFails(site)
    /\ \/ site.response.kind \in {"raises", "no_tool_calls"}
       \/ site.response.name # "analyze_website_design"
       \/ site.response.arguments \in {"list", "invalid"}

\* C29: process_url never raises and gives one record for its URL: with
\* screenshot_taken = False, judgment 'Unclear' and confidence 0 when the
\* screenshot cannot be taken, with screenshot_taken = True, judgment
\* 'Unclear' and confidence 0 when the screenshot is taken and the analysis
\* fails; process_restaurants returns exactly one record per input
\* restaurant, in input order.
C29_OneRecordPerRestaurant ==
    /\ pc \notin {"process_restaurants_raised", "process_urls_raised"}
    /\ Len(results) = row_idx
    /\ pc \in {"process_restaurants.browser_closed", "process_urls.browser_closed",
               "process_restaurants_returned", "process_urls_returned"} =>
          Len(results) = Len(rows)
    /\ \A k \in DOMAIN results :
          /\ results[k].url = rows[k].website
          /\ QualifyFunction = "process_restaurants" =>
                results[k].restaurant_name = rows[k].name
          /\ ScreenshotFails(rows[k].site) =>
                /\ results[k].screenshot_taken = FALSE
                /\ results[k].judgment = "Unclear"
                /\ results[k].confidence = 0
          /\ AnalysisFails(rows[k].site) =>
                /\ results[k].screenshot_taken = TRUE
                /\ results[k].judgment = "Unclear"
                /\ results[k].confidence = 0

\* process_restaurants returned two restaurants without an output file: the
\* page of the first did not load, the analysis of the second answered with
\* a list
C29_Witness ==
    /\ pc = "process_restaurants_returned"
    /\ output_file = NoOutputFile
    /\ Len(rows) = 2
    /\ rows[1].site.screenshot = "goto_fails"
    /\ rows[2].site.response.arguments = "list"
    /\ results[1].screenshot_taken = FALSE
    /\ results[1].judgment = "Unclear"
    /\ results[2].screenshot_taken = TRUE
    /\ results[2].judgment = "Unclear"
    /\ results[2].confidence = 0
    /\ saved = <<>>

====
